---- MODULE Spec2Model ----
(***************************************************************************)
(* Model of the anime-watch main process: the gogoanime episode source     *)
(* extractor (hidden BrowserWindow + webRequest capture on the session     *)
(* 'persist:extractor') and the local HLS proxy's registration state.      *)
(* URLs are strings; time is counted in milliseconds and advances in       *)
(* steps of TickMs.                                                        *)
(***************************************************************************)
EXTENDS Integers, Sequences, FiniteSets, TLC

\* ------------------------------------------------------------------
\* Bounds of the model
\* ------------------------------------------------------------------

\* IPC calls 'provider:fetch-sources' issued by the renderer over a run
MaxCalls == 2

\* data-video attributes on one episode page
MaxServers == 2

\* qualifying requests handled by the capture hook over a run
MaxCaptures == 2

\* hidden windows opened over a run
MaxSessions == 2

\* IPC calls 'provider:clear-cache' issued by the renderer over a run
MaxClears == 1

\* HTTP requests handled by the proxy over a run
MaxRequests == 2

\* BrowserWindows handed to setExtractorWindow over a run
MaxWindows == 2

\* lines of a playlist after its #EXTM3U line
MaxLines == 2

\* entries of a search result list
MaxResults == 3

\* episodes of the anime opened in the watch page
MaxEpisode == 2

\* rows inserted into the table anime over a run
MaxRowId == 3

\* ------------------------------------------------------------------
\* Program constants
\* ------------------------------------------------------------------

\* setTimeout(..., 2000) after a capture
DebounceMs == 2000

\* setTimeout(..., 25000) at session start
CeilingMs == 25000

\* sessionFetch(win, targetUrl, _referer, retries = 3)
Retries == 3

\* setTimeout(r, 300 * attempt) before the next attempt
BackoffMs == 300

\* granularity of the model's clock while a debounce timer is armed: half a
\* debounce window
TickMs == DebounceMs \div 2

\* granularity of the model's clock while only ceiling timers are armed; two
\* such steps leave a ceiling timer TickMs short of firing
IdleMs == (CeilingMs - TickMs) \div 2

\* ephemeral ports the OS may hand to server.listen(0, '127.0.0.1')
Ports == {49152}

\* ------------------------------------------------------------------
\* String helpers (String.prototype.*)
\* ------------------------------------------------------------------

startsWith(s, p) == Len(s) >= Len(p) /\ SubSeq(s, 1, Len(p)) = p

endsWith(s, p) == Len(s) >= Len(p) /\ SubSeq(s, Len(s) - Len(p) + 1, Len(s)) = p

includes(s, p) == \E i \in 1..(Len(s) - Len(p) + 1) : SubSeq(s, i, i + Len(p) - 1) = p

\* index of the first occurrence of p in s, 0 when there is none
indexOf(s, p) ==
    IF includes(s, p)
    THEN CHOOSE i \in 1..(Len(s) - Len(p) + 1) :
            /\ SubSeq(s, i, i + Len(p) - 1) = p
            /\ \A j \in 1..(i - 1) : SubSeq(s, j, j + Len(p) - 1) # p
    ELSE 0

\* url.split('?')[0]
splitQuery(url) ==
    IF includes(url, "?") THEN SubSeq(url, 1, indexOf(url, "?") - 1) ELSE url

\* index of the last occurrence of p in s, 0 when there is none
lastIndexOf(s, p) ==
    IF includes(s, p)
    THEN CHOOSE i \in 1..(Len(s) - Len(p) + 1) :
            /\ SubSeq(s, i, i + Len(p) - 1) = p
            /\ \A j \in (i + 1)..(Len(s) - Len(p) + 1) : SubSeq(s, j, j + Len(p) - 1) # p
    ELSE 0

\* the characters \s and trim() take for white space, of those that occur here
isSpace(c) == c \in {" ", "\t", "\r", "\n"}

\* new URL(url).origin
originOf(url) ==
    LET schemeEnd == indexOf(url, "://") + 2
        rest == SubSeq(url, schemeEnd + 1, Len(url))
        host == IF includes(rest, "/") THEN SubSeq(rest, 1, indexOf(rest, "/") - 1) ELSE rest
    IN  SubSeq(url, 1, schemeEnd) \o host

\* String(n) for a natural number
RECURSIVE numToString(_)
numToString(n) ==
    LET d == SubSeq("0123456789", (n % 10) + 1, (n % 10) + 1)
    IN  IF n < 10 THEN d ELSE numToString(n \div 10) \o d

\* ------------------------------------------------------------------
\* encodeURIComponent and URLSearchParams decoding
\* ------------------------------------------------------------------

\* characters encodeURIComponent leaves alone
Unreserved == "ABCDEFGHIJKLMNOPQRSTUVWXYZabcdefghijklmnopqrstuvwxyz0123456789-_.!~*'()"

encodeChar(c) ==
    IF includes(Unreserved, c) THEN c
    ELSE CASE c = ":" -> "%3A"
           [] c = "/" -> "%2F"
           [] c = "?" -> "%3F"
           [] c = "=" -> "%3D"
           [] c = "&" -> "%26"
           [] c = "#" -> "%23"
           [] c = "%" -> "%25"
           [] c = "+" -> "%2B"
           [] c = " " -> "%20"
           [] c = "," -> "%2C"
           [] OTHER   -> "%3F"

RECURSIVE encodeURIComponent(_)
encodeURIComponent(s) ==
    IF s = "" THEN "" ELSE encodeChar(Head(s)) \o encodeURIComponent(Tail(s))

decodeEscape(e) ==
    CASE e = "%3A" -> ":"
      [] e = "%2F" -> "/"
      [] e = "%3F" -> "?"
      [] e = "%3D" -> "="
      [] e = "%26" -> "&"
      [] e = "%23" -> "#"
      [] e = "%25" -> "%"
      [] e = "%2B" -> "+"
      [] e = "%20" -> " "
      [] e = "%2C" -> ","
      [] OTHER     -> e

\* percent-decoding of one query value as URLSearchParams does it
RECURSIVE decodeQueryValue(_)
decodeQueryValue(s) ==
    IF s = "" THEN ""
    ELSE IF Head(s) = "%" /\ Len(s) >= 3
         THEN decodeEscape(SubSeq(s, 1, 3)) \o decodeQueryValue(SubSeq(s, 4, Len(s)))
         ELSE IF Head(s) = "+"
              THEN " " \o decodeQueryValue(Tail(s))
              ELSE Head(s) \o decodeQueryValue(Tail(s))

\* ------------------------------------------------------------------
\* Text helpers of the title matcher (String.prototype.*, RegExp)
\* ------------------------------------------------------------------

UpperCase == "ABCDEFGHIJKLMNOPQRSTUVWXYZ"

LowerCase == "abcdefghijklmnopqrstuvwxyz"

Digits == "0123456789"

isDigit(c) == includes(Digits, c)

\* the class [a-zA-Z0-9\s] over the characters titles are made of
isWordOrSpace(c) ==
    includes(UpperCase, c) \/ includes(LowerCase, c) \/ isDigit(c) \/ isSpace(c)

toLowerChar(c) ==
    IF includes(UpperCase, c)
    THEN SubSeq(LowerCase, indexOf(UpperCase, c), indexOf(UpperCase, c))
    ELSE c

RECURSIVE toLowerCase(_)
toLowerCase(s) ==
    IF s = "" THEN "" ELSE toLowerChar(Head(s)) \o toLowerCase(Tail(s))

\* s.replace(/[^a-zA-Z0-9\s]/g, '')
RECURSIVE stripPunctuation(_)
stripPunctuation(s) ==
    IF s = "" THEN ""
    ELSE IF isWordOrSpace(Head(s))
         THEN Head(s) \o stripPunctuation(Tail(s))
         ELSE stripPunctuation(Tail(s))

\* the rest of s after its leading characters of one class
RECURSIVE dropSpaces(_)
dropSpaces(s) == IF s # "" /\ isSpace(Head(s)) THEN dropSpaces(Tail(s)) ELSE s

RECURSIVE dropDigits(_)
dropDigits(s) == IF s # "" /\ isDigit(Head(s)) THEN dropDigits(Tail(s)) ELSE s

\* s.replace(/\s+/g, ' ')
RECURSIVE collapseSpaces(_)
collapseSpaces(s) ==
    IF s = "" THEN ""
    ELSE IF isSpace(Head(s))
         THEN " " \o collapseSpaces(dropSpaces(s))
         ELSE Head(s) \o collapseSpaces(Tail(s))

\* s.trim()
RECURSIVE trimEnd(_)
trimEnd(s) ==
    IF s # "" /\ isSpace(SubSeq(s, Len(s), Len(s)))
    THEN trimEnd(SubSeq(s, 1, Len(s) - 1))
    ELSE s

trim(s) == trimEnd(dropSpaces(s))

\* the keywords of /\s*(season|part|cour)\s*\d*/gi
SeasonTokens == <<"season", "part", "cour">>

\* what is left of s after a match of /\s*(season|part|cour)\s*\d*/i that
\* starts at its first character; s itself when there is no such match
afterSeasonToken(s) ==
    LET body == dropSpaces(s)
        hits == { k \in 1..Len(SeasonTokens) :
                    startsWith(toLowerCase(body), SeasonTokens[k]) }
    IN  IF hits = {} THEN s
        ELSE LET k == CHOOSE h \in hits : \A g \in hits : h <= g
             IN  dropDigits(dropSpaces(SubSeq(body, Len(SeasonTokens[k]) + 1, Len(body))))

\* s.replace(/\s*(season|part|cour)\s*\d*/gi, '')
RECURSIVE stripSeasonTokens(_)
stripSeasonTokens(s) ==
    IF s = "" THEN ""
    ELSE IF afterSeasonToken(s) # s
         THEN stripSeasonTokens(afterSeasonToken(s))
         ELSE Head(s) \o stripSeasonTokens(Tail(s))

\* the simplified query of fetchEpisodeSources
simplify(term) == trim(collapseSpaces(stripPunctuation(stripSeasonTokens(term))))

\* s.split(' ')
RECURSIVE split(_)
split(s) ==
    IF includes(s, " ")
    THEN <<SubSeq(s, 1, indexOf(s, " ") - 1)>>
            \o split(SubSeq(s, indexOf(s, " ") + 1, Len(s)))
    ELSE <<s>>

\* array.includes(w)
contains(seq, w) == \E i \in 1..Len(seq) : seq[i] = w

\* a.filter((w) => b.includes(w)).length
countIn(a, b) == Cardinality({ i \in 1..Len(a) : contains(b, a[i]) })

maxOf(a, b) == IF a >= b THEN a ELSE b

minOf(a, b) == IF a <= b THEN a ELSE b

\* ------------------------------------------------------------------
\* gogoanime.ts: findBestMatch
\* ------------------------------------------------------------------
\* A ProviderResult is [id, title]; its url and image play no part in the
\* matching.  Scores are kept as exact multiples of 1/scoreUnit.

\* const normalize = (s) => s.toLowerCase().replace(...).replace(...).trim()
normalize(s) == trim(collapseSpaces(stripPunctuation(toLowerCase(s))))

isDub(r) == includes(toLowerCase(r.title), "(dub)") \/ endsWith(r.id, "-dub")

\* results.filter(keep), in order
RECURSIVE filterResults(_, _)
filterResults(results, wantDub) ==
    IF results = <<>> THEN <<>>
    ELSE IF isDub(Head(results)) = wantDub
         THEN <<Head(results)>> \o filterResults(Tail(results), wantDub)
         ELSE filterResults(Tail(results), wantDub)

\* the candidates without the audio filter
candidatesOfAll(results, audioType) == results

\* filtered.length > 0 ? filtered : results
candidatesOf(results, audioType) ==
    LET filtered == filterResults(results, audioType = "dub")
    IN  IF Len(filtered) > 0 THEN filtered ELSE results

\* target2 = titleEnglish ? normalize(titleEnglish) : ''
target2Of(titleEnglish) == IF titleEnglish # "" THEN normalize(titleEnglish) ELSE ""

\* words2 = target2 ? target2.split(' ') : []
words2Of(target2) == IF target2 # "" THEN split(target2) ELSE <<>>

\* the common denominator of the two word-overlap ratios
scoreUnit(target1, target2) ==
    Len(split(target1)) * maxOf(Len(words2Of(target2)), 1)

\* score of one result before the length penalty, times scoreUnit
baseScore(norm, target1, target2) ==
    LET unit == scoreUnit(target1, target2)
    IN  IF norm = target1 \/ (target2 # "" /\ norm = target2) THEN 100 * unit
        ELSE IF includes(norm, target1) \/ includes(target1, norm) THEN 80 * unit
        ELSE IF target2 # "" /\ (includes(norm, target2) \/ includes(target2, norm))
             THEN 75 * unit
        ELSE LET words1 == split(target1)
                 words2 == words2Of(target2)
                 resultWords == split(norm)
                 overlap1 == countIn(words1, resultWords) * (unit \div Len(words1))
                 overlap2 == IF Len(words2) > 0
                             THEN countIn(words2, resultWords) * (unit \div Len(words2))
                             ELSE 0
             IN  maxOf(overlap1, overlap2) * 60

\* targetLen = target2 ? Math.min(target1.length, target2.length) : target1.length
targetLenOf(target1, target2) ==
    IF target2 # "" THEN minOf(Len(target1), Len(target2)) ELSE Len(target1)

\* the penalty applied to exact matches as well
lengthPenaltyAll(score, lenDiff, unit) ==
    IF lenDiff > 0 THEN score - minOf(lenDiff * 2, 20) * unit ELSE score

\* if (lenDiff > 0 && score < 100) score -= Math.min(lenDiff * 2, 20)
lengthPenalty(score, lenDiff, unit) ==
    IF lenDiff > 0 /\ score < 100 * unit
    THEN score - minOf(lenDiff * 2, 20) * unit
    ELSE score

\* score of a normalized result title against the normalized targets
scoreOfNormalized(norm, target1, target2) ==
    lengthPenalty(baseScore(norm, target1, target2),
                  Len(norm) - targetLenOf(target1, target2),
                  scoreUnit(target1, target2))

\* score of one result, times scoreUnit
scoreOf(r, title, titleEnglish) ==
    scoreOfNormalized(normalize(r.title), normalize(title), target2Of(titleEnglish))

\* scored = results.map((r) => ({ result: r, score }))
scoredOf(candidates, title, titleEnglish) ==
    [k \in 1..Len(candidates) |->
        [result |-> candidates[k],
         score |-> scoreOf(candidates[k], title, titleEnglish),
         length |-> Len(normalize(candidates[k].title))]]

\* the comparator without its tie-break
sortsBeforeByScore(a, b) == a.score > b.score

\* does a sort before b: higher score first, then the shorter normalized title
sortsBefore(a, b) ==
    IF a.score # b.score THEN a.score > b.score ELSE a.length < b.length

\* scored[0] after the (stable) sort: nothing sorts before it, and it precedes
\* every candidate it ties with
topCandidate(scored) ==
    scored[CHOOSE k \in 1..Len(scored) :
              /\ \A j \in 1..Len(scored) : ~sortsBefore(scored[j], scored[k])
              /\ \A j \in 1..(k - 1) :
                    sortsBefore(scored[k], scored[j]) \/ sortsBefore(scored[j], scored[k])]

\* `null`
NoResult == [id |-> "", title |-> ""]

\* acceptedScore with any positive score accepted
acceptedScorePositive(top, unit) == top.score > 0

\* scored[0]?.score > 30
acceptedScore(top, unit) == top.score > 30 * unit

\* scored[0]?.score > 30 ? scored[0].result : null
bestResult(top, unit) == IF acceptedScore(top, unit) THEN top.result ELSE NoResult

findBestMatch(results, title, titleEnglish, audioType) ==
    IF Len(results) = 0 THEN NoResult
    ELSE bestResult(topCandidate(scoredOf(candidatesOf(results, audioType),
                                          title, titleEnglish)),
                    scoreUnit(normalize(title), target2Of(titleEnglish)))

\* ------------------------------------------------------------------
\* State
\* ------------------------------------------------------------------

VARIABLES
    appState,         \* "starting" | "running" | "quit" (app lifecycle, main/index.ts)
    server,           \* proxy: is the http server object set (server !== null)
    proxyPort,        \* proxy: let proxyPort = 0
    extractorWindow,  \* proxy: let extractorWindow = null (0) or a window id
    activeReferer,    \* proxy: let activeReferer = null ("") or a referer
    windows,          \* ids of the hidden BrowserWindows that are not destroyed
    hookOwner,        \* session whose listeners are installed on 'persist:extractor'
    sessions,         \* one record per extractViaHiddenWindow promise, in creation order
    calls,            \* one record per 'provider:fetch-sources' invocation
    captureCount,     \* qualifying requests handled so far (bounded by MaxCaptures)
    hist,             \* per session, what was observed of it (history only)
    providerCache,    \* database: provider_cache rows of 'gogoanime', anilist_id -> provider_id
    activeBaseUrl,    \* gogoanime: let activeBaseUrl = null ("") or an origin
    fetches,          \* one record per fetchEpisodeSources invocation (title matching)
    matchHist,        \* what was observed of the matching (history only)
    requests,         \* one record per HTTP request handled by the proxy's handleRequest
    regHist,          \* the latest setExtractorWindow call (history only)
    rewriteRun,       \* one application of rewritePlaylist: its inputs and its output
    findRun,          \* one application of findBestMatch: its inputs and its output
    watch,            \* renderer: the state, the ref and the pending promises of WatchPage
    library           \* database: the rows of the tables anime and watch_progress

\* the state of the title matching and of the mirror resolver
matchVars == <<providerCache, activeBaseUrl, fetches, matchHist>>

\* the requests in flight at the proxy and the registration history
proxyVars == <<requests, regHist>>

\* the single applications of rewritePlaylist and of findBestMatch, the watch
\* page and the library tables
pureVars == <<rewriteRun, findRun, watch, library>>

vars == <<appState, server, proxyPort, extractorWindow, activeReferer, windows,
          hookOwner, sessions, calls, captureCount, hist, matchVars, proxyVars, pureVars>>

CallIds == 1..MaxCalls

ReqIds == 1..MaxRequests

WindowIds == 1..MaxWindows

SessionIds == 1..Len(sessions)

\* ------------------------------------------------------------------
\* The environment: provider pages and the requests a player page issues
\* ------------------------------------------------------------------

\* the i-th data-video attribute of an episode page (odd ones protocol-relative)
DataVideo(i) ==
    IF i % 2 = 1 THEN "//e.io/" \o numToString(i) ELSE "https://f.io/" \o numToString(i)

\* the data-video attribute lists an episode page may carry
EpisodePages == { [i \in 1..n |-> DataVideo(i)] : n \in 0..MaxServers }

\* the embed URLs among them that serve a wrapper page
WrapperHosts == { "https:" \o DataVideo(i) : i \in { j \in 1..MaxServers : j % 2 = 1 } }

\* what fetchText(embedUrl) may yield: a failure, or the page behind the URL
\* (e.io serves a wrapper around an iframe, the other hosts the player itself)
WrapperPages(embedUrl) ==
    { [ok |-> FALSE, iframe |-> ""],
      [ok |-> TRUE,  iframe |-> IF embedUrl \in WrapperHosts THEN "//p.io/v" ELSE ""] }

\* request URLs seen on the 'persist:extractor' session
RequestUrls == { "https://c.io/m.m3u8?t=1",
                 "https://c.io/v.mp4",
                 "https://c.io/s.ts" }

\* target URLs a player asks the proxy for
TargetUrls == { "https://c.io/a/m.m3u8?t=1&s=a+b", "https://c.io/a/s.ts" }

\* request URLs the hooks of the 'persist:extractor' session are tried on:
\* manifests by suffix, by /master.m3u8 and by /index, look-alikes (.m3u8 in
\* the query only, .ts in the query, a beacon), media by suffix with and
\* without query, media named in the query only, the text "ad" in the path,
\* and manifests and media on blocked domains
HookUrls ==
    RequestUrls \cup
    { "https://c.io/hls/master.m3u8/x",
      "https://c.io/index/a.m3u8.key",
      "https://c.io/index.html",
      "https://c.io/a.m3u8?f=s.ts",
      "https://jwpltx.com/a.m3u8",
      "https://c.io/get?f=a.m3u8",
      "https://c.io/get?f=a.mp4",
      "https://c.io/v.webm?x=1",
      "https://c.io/load/v.mp4",
      "https://plausible.io/index.m3u8",
      "https://doubleclick.net/v.mp4",
      "https://plausible.io/js/p.js" }

\* encodeURIComponent and String(port), tabulated once for the URLs and ports
\* of this model
encodedUrl == [u \in HookUrls \cup TargetUrls |-> encodeURIComponent(u)]

portString == [p \in Ports \cup {0} |-> numToString(p)]

\* ------------------------------------------------------------------
\* proxy.ts
\* ------------------------------------------------------------------

\* toProxyUrl(realUrl) while proxyPort is port
toProxyUrlAt(port, realUrl) ==
    "http://127.0.0.1:" \o portString[port] \o "/proxy?url="
        \o (IF realUrl \in DOMAIN encodedUrl THEN encodedUrl[realUrl]
            ELSE encodeURIComponent(realUrl))

\* toProxyUrl(realUrl)
toProxyUrl(realUrl) == toProxyUrlAt(proxyPort, realUrl)

\* getExtractorWindow without the isDestroyed() test
getExtractorWindowStale == extractorWindow

\* getExtractorWindow(): the registered window unless it is destroyed
getExtractorWindow ==
    IF extractorWindow # 0 /\ extractorWindow \in windows THEN extractorWindow ELSE 0

\* handleRequest up to `const targetUrl`: 404 or 400, or 0 when the request
\* names a target (port stands for proxyPort)
routeStatus(port, method, reqUrl) ==
    LET origin == "http://127.0.0.1:" \o portString[port]
        rel    == IF startsWith(reqUrl, origin)
                  THEN SubSeq(reqUrl, Len(origin) + 1, Len(reqUrl)) ELSE reqUrl
        path   == splitQuery(rel)
        query  == IF includes(rel, "?")
                  THEN SubSeq(rel, indexOf(rel, "?") + 1, Len(rel)) ELSE ""
    IN  IF reqUrl = "" \/ method # "GET" THEN 404
        ELSE IF path # "/proxy" THEN 404
        ELSE IF ~startsWith(query, "url=") \/ query = "url=" THEN 400
        ELSE 0

\* the registration check of handleRequest after the route was found to be
\* route: 503 without a live window
registrationStatus(route, win) == IF route # 0 THEN route ELSE IF win = 0 THEN 503 ELSE 0

\* handleRequest up to the registration check: the status answered before any
\* upstream fetch, or 0 when the request goes on to sessionFetch
handleRequestEarlyStatus(method, reqUrl) ==
    registrationStatus(routeStatus(proxyPort, method, reqUrl), getExtractorWindow)

\* the url parameter taken from the query string without decoding it
proxyTargetRaw(reqUrl) ==
    LET q   == SubSeq(reqUrl, indexOf(reqUrl, "?") + 1, Len(reqUrl))
        val == SubSeq(q, Len("url=") + 1, Len(q))
    IN  IF includes(val, "&") THEN SubSeq(val, 1, indexOf(val, "&") - 1) ELSE val

\* the target URL handleRequest reads from a proxy URL (searchParams.get('url'))
proxyTarget(reqUrl) ==
    LET q   == SubSeq(reqUrl, indexOf(reqUrl, "?") + 1, Len(reqUrl))
        val == SubSeq(q, Len("url=") + 1, Len(q))
        one == IF includes(val, "&") THEN SubSeq(val, 1, indexOf(val, "&") - 1) ELSE val
    IN  decodeQueryValue(one)

\* ------------------------------------------------------------------
\* proxy.ts: rewritePlaylist, resolveUrl
\* ------------------------------------------------------------------

\* content.split('\n')
RECURSIVE splitLines(_)
splitLines(s) ==
    IF includes(s, "\n")
    THEN <<SubSeq(s, 1, indexOf(s, "\n") - 1)>>
            \o splitLines(SubSeq(s, indexOf(s, "\n") + 1, Len(s)))
    ELSE <<s>>

\* lines.join('\n')
RECURSIVE joinLines(_)
joinLines(lines) ==
    IF Len(lines) = 0 THEN ""
    ELSE IF Len(lines) = 1 THEN Head(lines)
    ELSE Head(lines) \o "\n" \o joinLines(Tail(lines))

isAbsoluteHttp(url) == startsWith(url, "http://") \/ startsWith(url, "https://")

\* the directory of an absolute URL without its query: the URL up to the last
\* '/' of its path, or the origin and '/' when it has no path
directoryOf(url) ==
    IF Len(splitQuery(url)) > Len(originOf(url))
    THEN SubSeq(splitQuery(url), 1, lastIndexOf(splitQuery(url), "/"))
    ELSE originOf(url) \o "/"

\* the parent of a directory, the directory itself at the root
parentOf(dir) ==
    IF Len(dir) > Len(originOf(dir)) + 1
    THEN SubSeq(dir, 1, lastIndexOf(SubSeq(dir, 1, Len(dir) - 1), "/"))
    ELSE dir

\* a path-relative reference joined to a directory, its leading ./ and ../
\* segments resolved
RECURSIVE joinPath(_, _)
joinPath(dir, rel) ==
    IF startsWith(rel, "../") THEN joinPath(parentOf(dir), SubSeq(rel, 4, Len(rel)))
    ELSE IF startsWith(rel, "./") THEN joinPath(dir, SubSeq(rel, 3, Len(rel)))
    ELSE dir \o rel

\* new URL(url, baseUrl).href for a reference without a scheme and an absolute
\* base: protocol-relative, root-relative or path-relative
urlHref(url, baseUrl) ==
    IF startsWith(url, "//")
    THEN SubSeq(baseUrl, 1, indexOf(baseUrl, "://")) \o url
    ELSE IF startsWith(url, "/") THEN originOf(baseUrl) \o url
    ELSE joinPath(directoryOf(baseUrl), url)

\* resolveUrl(url, baseUrl); new URL throws when the base is no absolute URL
resolveUrl(url, baseUrl) ==
    IF isAbsoluteHttp(url) THEN url
    ELSE IF isAbsoluteHttp(baseUrl) THEN urlHref(url, baseUrl)
    ELSE baseUrl \o url

\* does /URI="([^"]+)"/ match at the start of s: the attribute name, at least
\* one character that is no quote, and a closing quote
uriMatchesAt(s) ==
    /\ startsWith(s, "URI=\"")
    /\ includes(SubSeq(s, 6, Len(s)), "\"")
    /\ indexOf(SubSeq(s, 6, Len(s)), "\"") > 1

\* position in line of the first match of /URI="([^"]+)"/, 0 when there is none
uriMatchIndex(line) ==
    IF \E i \in 1..Len(line) : uriMatchesAt(SubSeq(line, i, Len(line)))
    THEN CHOOSE i \in 1..Len(line) :
            /\ uriMatchesAt(SubSeq(line, i, Len(line)))
            /\ \A j \in 1..(i - 1) : ~uriMatchesAt(SubSeq(line, j, Len(line)))
    ELSE 0

\* the capture group of the match at position i of line
uriAt(line, i) ==
    SubSeq(line, i + 5, i + 3 + indexOf(SubSeq(line, i + 5, Len(line)), "\""))

\* line with the match at position i replaced by URI="<proxied>"
replaceUriAt(port, line, i, baseUrl) ==
    IF i = 0 THEN line
    ELSE SubSeq(line, 1, i - 1)
            \o "URI=\"" \o toProxyUrlAt(port, resolveUrl(uriAt(line, i), baseUrl)) \o "\""
            \o SubSeq(line, i + 6 + Len(uriAt(line, i)), Len(line))

\* the callback of .map: rewriteLine with the trimmed line handed in
rewriteTrimmed(port, line, trimmed, baseUrl) ==
    IF trimmed = "" \/ (startsWith(trimmed, "#") /\ ~includes(trimmed, "URI=\""))
    THEN line
    ELSE IF includes(trimmed, "URI=\"")
    THEN replaceUriAt(port, line, uriMatchIndex(line), baseUrl)
    ELSE IF ~startsWith(trimmed, "#")
    THEN toProxyUrlAt(port, resolveUrl(trimmed, baseUrl))
    ELSE line

\* the callback of .map in rewritePlaylist
rewriteLine(port, line, baseUrl) == rewriteTrimmed(port, line, trim(line), baseUrl)

\* playlistUrl.substring(0, playlistUrl.lastIndexOf('/') + 1)
baseUrlOf(playlistUrl) == SubSeq(playlistUrl, 1, lastIndexOf(playlistUrl, "/"))

\* rewritePlaylist(content, playlistUrl) while proxyPort is port
rewritePlaylist(port, content, playlistUrl) ==
    joinLines([i \in 1..Len(splitLines(content)) |->
                  rewriteLine(port, splitLines(content)[i], baseUrlOf(playlistUrl))])

\* ------------------------------------------------------------------
\* proxy.ts: handleRequest, sessionFetch
\* ------------------------------------------------------------------

\* a playlist as the CDN serves it
PlaylistBody == "#EXTM3U\n#EXT-X-KEY:URI=\"key.bin\"\nseg1.ts\nhttps://cdn/seg2.ts"

\* what net.fetch(targetUrl) can resolve with: a playlist (also after leading
\* white space), a segment, a body without content type, error pages
UpstreamResponses ==
    { [status |-> 200, contentType |-> "application/vnd.apple.mpegurl", body |-> PlaylistBody],
      [status |-> 200, contentType |-> "", body |-> "\n #EXTM3U\nseg1.ts"],
      [status |-> 200, contentType |-> "video/mp2t", body |-> "G@segment"],
      [status |-> 200, contentType |-> "text/html", body |-> "<html>challenge</html>"],
      [status |-> 403, contentType |-> "text/html", body |-> "<html>blocked</html>"],
      [status |-> 404, contentType |-> "application/vnd.apple.mpegurl", body |-> "gone"] }

\* the message of the error net.fetch rejects with
FetchErrorMessage == "net::ERR_CONNECTION_RESET"

\* `null` for the result of sessionFetch
NoUpstream == [status |-> 0, contentType |-> "", body |-> ""]

\* no response written yet
NoResponse == [status |-> 0, headers |-> <<>>, body |-> ""]

IdleRequest ==
    [pc |-> "idle",         \* "idle" | "fetch" | "wait" | "done"
     method |-> "",
     reqUrl |-> "",
     targetUrl |-> "",      \* parsed.searchParams.get('url')
     win |-> 0,             \* the window getExtractorWindow() returned
     registered |-> 0,      \* extractorWindow on arrival (history)
     alive |-> FALSE,       \* was that window not destroyed on arrival (history)
     attempt |-> 0,         \* the loop variable of sessionFetch
     statuses |-> <<>>,     \* per net.fetch so far its status, 0 for a rejection (history)
     waits |-> <<>>,        \* the delays slept so far, in ms (history)
     upstream |-> NoUpstream,  \* what sessionFetch resolved with
     response |-> NoResponse]

\* const outHeaders = { ... }
outHeaders ==
    ("Access-Control-Allow-Origin" :> "*") @@ ("Access-Control-Allow-Methods" :> "GET, OPTIONS")
        @@ ("Access-Control-Allow-Headers" :> "*") @@ ("Cache-Control" :> "no-cache")

\* text.trimStart()
trimStart(s) == dropSpaces(s)

\* const isM3u8 = ...
isM3u8(targetUrl, contentType) ==
    includes(contentType, "mpegurl") \/ includes(contentType, "m3u8")
        \/ includes(targetUrl, ".m3u8")

\* passThrough with the status forced to 200
passThroughOk(up) ==
    [status |-> 200,
     headers |-> (IF up.contentType # "" THEN ("Content-Type" :> up.contentType) ELSE <<>>)
                    @@ ("Content-Length" :> numToString(Len(up.body))) @@ outHeaders,
     body |-> up.body]

\* the else branch of the .then callback: the upstream response handed on
passThrough(up) ==
    [status |-> up.status,
     headers |-> (IF up.contentType # "" THEN ("Content-Type" :> up.contentType) ELSE <<>>)
                    @@ ("Content-Length" :> numToString(Len(up.body))) @@ outHeaders,
     body |-> up.body]

\* the .then callback of handleRequest: the response written for what
\* sessionFetch resolved with (port stands for proxyPort)
handleResponse(port, targetUrl, up) ==
    IF isM3u8(targetUrl, up.contentType) /\ up.status = 200
    THEN IF startsWith(trimStart(up.body), "#EXTM3U")
         THEN [status |-> 200,
               headers |-> ("Content-Type" :> "application/vnd.apple.mpegurl") @@ outHeaders,
               body |-> rewritePlaylist(port, up.body, targetUrl)]
         ELSE [status |-> 502, headers |-> <<>>, body |-> "Invalid playlist content"]
    ELSE passThrough(up)

\* the .catch callback of handleRequest
handleFetchError(message) ==
    [status |-> 502, headers |-> <<>>, body |-> "Proxy fetch failed: " \o message]

\* the body handleRequest ends an early response with
earlyBody(status) ==
    CASE status = 404 -> "Not found"
      [] status = 400 -> "Missing url parameter"
      [] status = 503 -> "No browser context available"

\* handleRequest up to the call of sessionFetch and its first net.fetch
handleRequest(method, reqUrl, early, targetUrl, win) ==
    IF early # 0
    THEN [IdleRequest EXCEPT !.pc = "done", !.method = method, !.reqUrl = reqUrl,
                             !.targetUrl = targetUrl,
                             !.response = [status |-> early, headers |-> <<>>,
                                           body |-> earlyBody(early)]]
    ELSE [IdleRequest EXCEPT !.pc = "fetch", !.method = method, !.reqUrl = reqUrl,
                             !.targetUrl = targetUrl, !.win = win, !.attempt = 1]

\* backoff with the registered window read again for the next attempt
backoffReread(q) ==
    [q EXCEPT !.pc = "wait", !.waits = Append(@, BackoffMs * q.attempt),
              !.win = extractorWindow]

\* sleep before the next attempt: setTimeout(r, 300 * attempt)
backoff(q) == [q EXCEPT !.pc = "wait", !.waits = Append(@, BackoffMs * q.attempt)]

\* sessionFetch after a response, a 403 never retried
sessionFetchAnsweredOnce(q, up, response) ==
    [q EXCEPT !.pc = "done", !.statuses = Append(@, up.status), !.upstream = up,
              !.response = response]

\* sessionFetch after `await net.fetch` resolved: retry a 403 while attempts
\* are left, else return to handleRequest's .then, which writes response
sessionFetchAnswered(q, up, response) ==
    IF up.status = 403 /\ q.attempt < Retries
    THEN backoff([q EXCEPT !.statuses = Append(@, up.status)])
    ELSE [q EXCEPT !.pc = "done", !.statuses = Append(@, up.status), !.upstream = up,
                   !.response = response]

\* sessionFetch after `await net.fetch` rejected: rethrow on the last attempt
\* (handleRequest's .catch), else sleep and go on
sessionFetchRejected(q) ==
    IF q.attempt >= Retries
    THEN [q EXCEPT !.pc = "done", !.statuses = Append(@, 0),
                   !.response = handleFetchError(FetchErrorMessage)]
    ELSE backoff([q EXCEPT !.statuses = Append(@, 0)])

\* no setExtractorWindow call so far
NoRegistration == [win |-> 0, referer |-> ""]

\* the referers setExtractorWindow is called with
Referers == { "https://p.io/v", "https://e.io/1" }

\* toProxyUrl of the target URLs, per value of proxyPort
proxyUrlTable == [p \in Ports \cup {0} |-> [u \in TargetUrls |-> toProxyUrlAt(p, u)]]

\* the methods and URLs of the requests that reach the proxy's port
Methods == {"GET", "POST"}

ClientUrls(port) == { proxyUrlTable[port][u] : u \in TargetUrls } \cup {"/proxy", "/favicon.ico"}

\* the requests that reach the proxy's port: a player dereferencing a proxy
\* URL, and other local clients
ClientRequests(port) ==
    { [method |-> "GET", reqUrl |-> r] : r \in ClientUrls(port) }
        \cup { [method |-> "POST", reqUrl |-> proxyUrlTable[port]["https://c.io/a/s.ts"]] }

\* routeStatus and searchParams.get('url'), per request
requestTable ==
    [p \in Ports \cup {0} |->
        [m \in Methods |->
            [r \in ClientUrls(p) |->
                [route |-> routeStatus(p, m, r),
                 targetUrl |-> IF routeStatus(p, m, r) = 0 THEN proxyTarget(r) ELSE ""]]]]

\* handleResponse, per target URL and upstream response
responseTable ==
    [p \in Ports \cup {0} |->
        [t \in TargetUrls |-> [up \in UpstreamResponses |-> handleResponse(p, t, up)]]]

\* ------------------------------------------------------------------
\* gogoanime.ts: the request hook of extractViaHiddenWindow
\* ------------------------------------------------------------------

\* 'https:' + url for a protocol-relative url
httpsNormalize(url) == IF startsWith(url, "//") THEN "https:" \o url ELSE url

\* the condition of the m3u8 branch of onBeforeRequest
isM3u8Capture(url) ==
    LET urlPath == splitQuery(url)
    IN  /\ \/ endsWith(urlPath, ".m3u8")
           \/ includes(urlPath, "/master.m3u8")
           \/ includes(urlPath, "/index")
        /\ includes(urlPath, ".m3u8")
        /\ ~includes(url, ".ts")
        /\ ~includes(url, "jwpltx")
        /\ ~includes(url, "ping.gif")

\* url.match(/\.(mp4|webm)(\?|$)/)
matchesVideoExt(url) ==
    \E e \in {".mp4", ".webm"} :
        \E i \in 1..(Len(url) - Len(e) + 1) :
            /\ SubSeq(url, i, i + Len(e) - 1) = e
            /\ \/ i + Len(e) - 1 = Len(url)
               \/ SubSeq(url, i + Len(e), i + Len(e)) = "?"

\* the condition of the mp4 branch of onBeforeRequest
isVideoCapture(url) ==
    matchesVideoExt(url) /\ ~includes(url, "ad") /\ includes(url, "http")

\* both conditions, tabulated once for the request URLs of this model
m3u8Hit == [u \in HookUrls |-> isM3u8Capture(u)]

videoHit == [u \in HookUrls |-> isVideoCapture(u)]

\* const blockedDomains of the onBeforeSendHeaders listener
blockedDomains ==
    << "googletagmanager.com", "google-analytics.com", "doubleclick.net",
       "googlesyndication.com", "plausible.io", "bvtpk.com", "popads.net", "popunder" >>

\* blockedDomains.some((d) => details.url.includes(d)): the request is
\* answered callback({ cancel: true })
shouldBlock(url) == \E i \in 1..Len(blockedDomains) : includes(url, blockedDomains[i])

\* shouldBlock, tabulated once for the request URLs of this model
blockHit == [u \in HookUrls |-> shouldBlock(u)]

\* m3u8Source with the toProxyUrl call forgotten
m3u8SourceRaw(url) == [url |-> url, quality |-> "auto", isM3U8 |-> TRUE]

\* the VideoSource pushed by the m3u8 branch
m3u8Source(url) == [url |-> toProxyUrl(url), quality |-> "auto", isM3U8 |-> TRUE]

\* the VideoSource pushed by the mp4 branch
videoSource(url) == [url |-> toProxyUrl(url), quality |-> "default", isM3U8 |-> FALSE]

\* if (!resolved) setTimeout(..., 2000): one more pending debounce timer
scheduleDebounce(sess) ==
    IF ~sess.resolved
    THEN [sess EXCEPT !.debounce = Append(@, DebounceMs)]
    ELSE sess

\* capture with the buffer overwritten instead of appended to
captureOverwrite(sess, source) ==
    scheduleDebounce([sess EXCEPT !.capturedUrls = <<source>>])

\* one capture branch: push the source, then schedule the debounce
capture(sess, source) ==
    scheduleDebounce([sess EXCEPT !.capturedUrls = Append(@, source)])

\* the onBeforeRequest listener of one session, applied to one request
onBeforeRequest(sess, url) ==
    LET afterM3u8 == IF m3u8Hit[url] THEN capture(sess, m3u8Source(url)) ELSE sess
    IN  IF videoHit[url] THEN capture(afterM3u8, videoSource(url)) ELSE afterM3u8

\* the StreamingInfo handed to resolve(): sources is the capturedUrls array itself
\* (a reference to the session's array, modelled as the session's id)
streamingInfo(id, sess) ==
    [sources |-> id, headers |-> [Referer |-> sess.playerUrl], embedUrl |-> sess.playerUrl]

NoInfo == [sources |-> 0, headers |-> [Referer |-> ""], embedUrl |-> ""]

\* resolve()/reject() of a promise: only the first settlement counts
settle(sess, outcome, info, error) ==
    IF sess.outcome = "pending"
    THEN [sess EXCEPT !.outcome = outcome, !.info = info, !.error = error]
    ELSE sess

\* timeoutCallback with the reject of the empty case forgotten
timeoutCallbackNoReject(id, sess) ==
    IF ~sess.resolved /\ Len(sess.capturedUrls) > 0
    THEN settle([sess EXCEPT !.resolved = TRUE, !.destroyCalls = @ + 1],
                "resolved", streamingInfo(id, sess), "")
    ELSE sess

\* the callback of the 25 s setTimeout
timeoutCallback(id, sess) ==
    IF ~sess.resolved
    THEN LET s1 == [sess EXCEPT !.resolved = TRUE, !.destroyCalls = @ + 1]
         IN  IF Len(sess.capturedUrls) > 0
             THEN settle(s1, "resolved", streamingInfo(id, sess), "")
             ELSE settle(s1, "rejected", NoInfo,
                         "Timeout: no video URL found from " \o sess.embedUrl)
    ELSE sess

\* debounceCallback without its `if (!resolved)` guard
debounceCallbackUnguarded(id, sess) ==
    settle([sess EXCEPT !.resolved = TRUE, !.timeout = -1, !.destroyCalls = @ + 1],
           "resolved", streamingInfo(id, sess), "")

\* debounceCallback that leaves the resolved flag unset
debounceCallbackNoFlag(id, sess) ==
    IF ~sess.resolved
    THEN settle([sess EXCEPT !.timeout = -1, !.destroyCalls = @ + 1],
                "resolved", streamingInfo(id, sess), "")
    ELSE sess

\* the callback of a 2 s setTimeout
debounceCallback(id, sess) ==
    IF ~sess.resolved
    THEN settle([sess EXCEPT !.resolved = TRUE, !.timeout = -1, !.destroyCalls = @ + 1],
                "resolved", streamingInfo(id, sess), "")
    ELSE sess

\* the session state right after the promise executor ran
newSession(call, embedUrl, playerUrl) ==
    [call |-> call, embedUrl |-> embedUrl, playerUrl |-> playerUrl,
     capturedUrls |-> <<>>, resolved |-> FALSE,
     timeout |-> CeilingMs, debounce |-> <<>>,
     outcome |-> "pending", info |-> NoInfo, error |-> "", destroyCalls |-> 0]

\* the player URL extractViaHiddenWindow derives from the wrapper page
resolvePlayerUrl(embedUrl, page) ==
    IF page.ok /\ page.iframe # "" THEN httpsNormalize(page.iframe) ELSE embedUrl

\* ------------------------------------------------------------------
\* gogoanime.ts: getEpisodeSources
\* ------------------------------------------------------------------

NoServersError == "No streaming servers found"

GenericError == "Failed to extract video sources from any server"

HttpError == "HTTP 404 fetching episode"

IdleCall ==
    [pc |-> "idle", servers |-> <<>>, idx |-> 0, lastError |-> "",
     result |-> NoInfo, error |-> ""]

\* servers = extractAll(epHtml, serverRegex).map(normalise)
parseServers(page) == [i \in 1..Len(page) |-> httpsNormalize(page[i])]

\* nextServer with the throw after the loop ignoring lastError
nextServerGeneric(call) ==
    IF call.idx < Len(call.servers)
    THEN [call EXCEPT !.idx = @ + 1, !.pc = "wrapper"]
    ELSE [call EXCEPT !.pc = "thrown", !.error = GenericError]

\* the for loop moving on to the next server, or the throw after the loop
nextServer(call) ==
    IF call.idx < Len(call.servers)
    THEN [call EXCEPT !.idx = @ + 1, !.pc = "wrapper"]
    ELSE [call EXCEPT !.pc = "thrown",
                      !.error = IF call.lastError # "" THEN call.lastError ELSE GenericError]

\* afterSession with the catch rethrowing instead of continuing the loop
afterSessionRethrow(call, id, sess) ==
    IF sess.outcome = "resolved"
    THEN IF Len(sess.capturedUrls) > 0
         THEN [call EXCEPT !.pc = "returned", !.result = sess.info]
         ELSE nextServer(call)
    ELSE [call EXCEPT !.pc = "thrown", !.error = sess.error]

\* the continuation of `await extractViaHiddenWindow` inside the loop
afterSession(call, id, sess) ==
    IF sess.outcome = "resolved"
    THEN IF Len(sess.capturedUrls) > 0
         THEN [call EXCEPT !.pc = "returned", !.result = sess.info]
         ELSE nextServer(call)
    ELSE nextServer([call EXCEPT !.lastError = sess.error])

\* ------------------------------------------------------------------
\* The environment of the title matching: catalogue entries, mirrors,
\* search pages
\* ------------------------------------------------------------------

\* const DOMAINS = [...]
DOMAINS ==
    << "https://www14.gogoanimes.fi", "https://gogoanimes.fi", "https://anitaku.pe",
       "https://anitaku.bz", "https://anitaku.so", "https://gogoanime3.co" >>

\* the opts the renderer passes to 'provider:fetch-sources' (WatchPage's
\* fetchFromProvider); titleEnglish "" stands for null
FetchOpts ==
    { [anilistId |-> 1, title |-> "Re:Zero", titleEnglish |-> "Re Zero Season 2",
       episodeNumber |-> 1, audioType |-> "dub"],
      [anilistId |-> 2, title |-> "Naruto", titleEnglish |-> "",
       episodeNumber |-> 1, audioType |-> "sub"] }

AnilistIds == { o.anilistId : o \in FetchOpts }

\* entries of a provider search page
SubEntry == [id |-> "re-zero", title |-> "Re:Zero"]

DubEntry == [id |-> "re-zero-dub", title |-> "Re:Zero (Dub)"]

SeasonEntry == [id |-> "re-zero-season-2", title |-> "Re Zero Season 2"]

OvaEntry == [id |-> "re-zero-ova", title |-> "Re Zero OVA"]

\* what fetchText(search url) can bring: an HTTP or network error, or a page
\* with these entries
SearchResponses ==
    { [ok |-> FALSE, results |-> <<>>] }
    \cup { [ok |-> TRUE, results |-> r] :
             r \in { <<>>, <<OvaEntry>>, <<SubEntry, DubEntry>>, <<SeasonEntry>> } }

\* what the probe of one mirror can bring: a failure (network error, timeout,
\* or a body without fingerprint), or a fingerprinted body, served after a
\* redirect or, by the first mirror, from the mirror itself
ProbeResponses(domain) ==
    { [ok |-> FALSE, finalUrl |-> ""],
      [ok |-> TRUE, finalUrl |-> "https://anitaku.to/home"] }
    \cup { [ok |-> TRUE, finalUrl |-> d \o "/"] : d \in {domain} \cap {DOMAINS[1]} }

AllProbeResponses == UNION { ProbeResponses(DOMAINS[i]) : i \in 1..Len(DOMAINS) }

\* ------------------------------------------------------------------
\* gogoanime.ts: getBaseUrl, search; providers/index.ts: fetchEpisodeSources
\* ------------------------------------------------------------------

\* searchTerms of fetchEpisodeSources
searchTerms(opts) ==
    IF opts.titleEnglish # "" /\ opts.titleEnglish # opts.title
    THEN <<opts.title, opts.titleEnglish>>
    ELSE <<opts.title>>

\* simplifiedTerms with the second loop left out
simplifiedTermsNone(terms) == <<>>

\* the simplified queries the second loop searches for: simplified non-empty
\* and different from the term
RECURSIVE simplifiedTerms(_)
simplifiedTerms(terms) ==
    IF terms = <<>> THEN <<>>
    ELSE IF simplify(Head(terms)) # "" /\ simplify(Head(terms)) # Head(terms)
         THEN <<simplify(Head(terms))>> \o simplifiedTerms(Tail(terms))
         ELSE simplifiedTerms(Tail(terms))

\* the queries of both loops, in the order they are searched for
strategies == [o \in FetchOpts |-> searchTerms(o) \o simplifiedTerms(searchTerms(o))]

\* the audio type findBestMatch runs with: fetchEpisodeSources passes none,
\* so it is the parameter's default
matchAudioType(opts) == "sub"

\* best = findBestMatch(results, title, titleEnglish), per search page
bestOf ==
    [o \in FetchOpts |->
        [r \in { resp.results : resp \in SearchResponses } |->
            findBestMatch(r, o.title, o.titleEnglish, matchAudioType(o))]]

\* encodeURIComponent(query), per query
encodedQuery ==
    [q \in UNION { { strategies[o][i] : i \in 1..Len(strategies[o]) } : o \in FetchOpts } |->
        encodeURIComponent(q)]

\* the score findBestMatch gave an entry, per catalogue entry (times scoreUnit)
scoreTable ==
    [o \in FetchOpts |->
        [r \in { SubEntry, DubEntry, SeasonEntry, OvaEntry } |->
            [score |-> scoreOf(r, o.title, o.titleEnglish),
             unit |-> scoreUnit(normalize(o.title), target2Of(o.titleEnglish))]]]

\* isDub, per entry
dubTable == [r \in { SubEntry, DubEntry, SeasonEntry, OvaEntry } |-> isDub(r)]

\* url of search(query)
searchUrl(base, query) == base \o "/search.html?keyword=" \o encodedQuery[query]

\* episodeUrl of getEpisodeSources
episodeUrlOf(base, slug, episodeNumber) ==
    base \o "/" \o slug \o "-episode-" \o numToString(episodeNumber)

NotFoundError(opts) ==
    "Could not find \"" \o (IF opts.titleEnglish # "" THEN opts.titleEnglish ELSE opts.title)
        \o "\" on the streaming provider. Try a different title or use a manual video URL."

SearchHttpError == "HTTP 503 fetching search"

NoOpts == [anilistId |-> 0, title |-> "", titleEnglish |-> "", episodeNumber |-> 0,
           audioType |-> ""]

\* one getBaseUrl invocation as observed: the memo it found, whether a
\* resetDomain preceded it with the memo unset since, the probes it issued,
\* the origin it memoized and the base it returned
NoResolution ==
    [memoAtStart |-> "", afterReset |-> FALSE, log |-> <<>>, memoized |-> "", base |-> ""]

IdleFetch ==
    [pc |-> "idle",          \* "idle" | "probe" | "search" | "sources" | "thrown"
     opts |-> NoOpts,
     slug |-> "",            \* let slug
     cachedAtStart |-> "",   \* the provider_cache row at the time of the call (history)
     stage |-> 0,            \* position in strategies[opts] of the current query
     then |-> "",            \* the caller of the pending getBaseUrl: "search" | "episode"
     probeIdx |-> 0,         \* position in DOMAINS of the pending probe
     url |-> "",             \* the search or episode URL being fetched
     error |-> "",
     searched |-> <<>>,      \* queries searched for so far (history)
     wrote |-> FALSE,        \* did this call setProviderMapping (history)
     afterClear |-> "no",    \* matchHist.clearedFresh of the anilistId at the start (history)
     resolution |-> NoResolution]

\* getProviderMapping with the row never found
getProviderMappingMiss(cache, anilistId) == ""

\* database.ts: getProviderMapping(anilistId, 'gogoanime'); "" stands for null
getProviderMapping(cache, anilistId) == cache[anilistId]

\* clearProviderMapping deleting no row
clearProviderMappingNoRow(cache, anilistId) == cache

\* database.ts: clearProviderMapping(anilistId)
clearProviderMapping(cache, anilistId) == [cache EXCEPT ![anilistId] = ""]

\* the continuation of `await getBaseUrl()` in search or in getEpisodeSources:
\* build the URL and start fetchText
afterBaseUrl(f, base) ==
    IF f.then = "search"
    THEN [f EXCEPT !.pc = "search",
                   !.url = searchUrl(base, strategies[f.opts][f.stage]),
                   !.searched = Append(@, strategies[f.opts][f.stage]),
                   !.resolution.base = base]
    ELSE [f EXCEPT !.pc = "sources",
                   !.url = episodeUrlOf(base, f.slug, f.opts.episodeNumber),
                   !.resolution.base = base]

\* getBaseUrl called with the memo set to anything: the first probe is issued
getBaseUrlAlwaysProbes(f, memo, then, afterReset) ==
    [f EXCEPT !.pc = "probe", !.then = then, !.probeIdx = 1,
              !.resolution = [NoResolution EXCEPT !.memoAtStart = memo,
                                                  !.afterReset = afterReset]]

\* getBaseUrl up to its first await: return the memo, or issue the first probe
getBaseUrl(f, memo, then, afterReset) ==
    IF memo # ""
    THEN afterBaseUrl([f EXCEPT !.then = then,
                                !.resolution = [NoResolution EXCEPT !.memoAtStart = memo,
                                                                    !.afterReset = afterReset]],
                      memo)
    ELSE [f EXCEPT !.pc = "probe", !.then = then, !.probeIdx = 1,
                   !.resolution = [NoResolution EXCEPT !.afterReset = afterReset]]

\* the fallback taken from the end of the candidate list
fallbackBaseLast == DOMAINS[Len(DOMAINS)]

\* activeBaseUrl = DOMAINS[0] after every candidate failed its probe
fallbackBase == DOMAINS[1]

\* the origin memoized on a fingerprint hit, taken from the probed candidate
probeHitCandidate(domain, resp) == domain

\* new URL(finalUrl).origin, per final URL
finalOrigin ==
    [u \in { r.finalUrl : r \in { x \in AllProbeResponses : x.ok } } |-> originOf(u)]

\* the origin memoized on a fingerprint hit: new URL(res.url).origin
probeHit(domain, resp) == finalOrigin[resp.finalUrl]

\* ------------------------------------------------------------------
\* History kept beside each session
\* ------------------------------------------------------------------

\* a request the capture hook classifies as a manifest or as direct media
qualifies(url) == m3u8Hit[url] \/ videoHit[url]

NewHist ==
    [observed |-> <<>>,        \* qualifying request URLs handled while pending
     age |-> 0,                \* ms since the session started, while pending
     sinceCapture |-> 0,       \* ms since the latest qualifying capture, while pending
     settledBy |-> "none",     \* "debounce" | "ceiling"
     settledLate |-> FALSE,    \* was age beyond the ceiling at settlement
     settledGap |-> 0,         \* sinceCapture at the moment of settlement
     settledSources |-> <<>>]  \* capturedUrls at the moment of settlement

\* the history entry after a timer callback ran on a session
histAfterSettle(h, before, after, by) ==
    IF before.outcome = "pending" /\ after.outcome # "pending"
    THEN [h EXCEPT !.settledBy = by, !.settledSources = before.capturedUrls,
                   !.settledLate = (h.age > CeilingMs), !.settledGap = h.sinceCapture,
                   !.age = 0, !.sinceCapture = 0]
    ELSE h

\* the renderer mounts <webview partition="persist:extractor"> once a result
\* with an embedUrl came back
webviewMounted == \E c \in CallIds : calls[c].pc = "returned" /\ calls[c].result.embedUrl # ""

\* what was observed of the matching as a whole
NewMatchHist ==
    [written |-> {},                             \* every setProviderMapping, with the score
     clears |-> 0,                                \* clearProviderMapping calls so far
     clearedFresh |-> [a \in AnilistIds |-> "no"],  \* cleared and not written since: "no",
                                                  \* or what the clear found: "row" | "empty"
     resetFresh |-> FALSE]                        \* resetDomain ran and no memo was set since

\* what was observed of the registration
NewRegHist ==
    [last |-> NoRegistration,   \* the arguments of the latest setExtractorWindow call
     created |-> 0]             \* BrowserWindows created for registration so far

\* rewritePlaylist not applied
NoRewrite == [content |-> "", playlistUrl |-> "", done |-> FALSE, output |-> ""]

\* findBestMatch not applied
NoFind == [results |-> <<>>, title |-> "", titleEnglish |-> "", audioType |-> "",
           done |-> FALSE, best |-> NoResult]

\* ------------------------------------------------------------------
\* Actions
\* ------------------------------------------------------------------

\* the state of the main process after its modules were loaded
\* no source displayed: videoUrl = '' and embedUrl = ''
NoSource == [episode |-> 0, audio |-> ""]

\* WatchPage before its route is opened: the useState and useRef initial values
NewWatch ==
    [ mounted       |-> FALSE,      \* the route /watch/:id/:episode is rendered
      episodeNumber |-> 0,          \* parseInt(episode) of the route
      audioType     |-> "sub",      \* useState(() => getStoredAudioType(anilistId))
      anime         |-> FALSE,      \* useState(null): the details are loaded
      fetchingRef   |-> FALSE,      \* useRef(false)
      loads         |-> {},         \* pending loadData calls, with their closure's values
      inflight      |-> {},         \* pending window.api.fetchEpisodeSources calls
      shown         |-> NoSource,   \* the selection whose source is in videoUrl / embedUrl
      providerError |-> FALSE,      \* useState(null)
      dropped       |-> {} ]        \* selections whose fetch was skipped (history only)

\* createTables on a new file: no rows, AUTOINCREMENT sequence at 0
EmptyLibrary == [anime |-> {}, progress |-> {}, seq |-> 0]

ProgramInit ==
    /\ watch = NewWatch
    /\ library = EmptyLibrary
    /\ appState = "starting"
    /\ server = FALSE
    /\ proxyPort = 0
    /\ extractorWindow = 0
    /\ activeReferer = ""
    /\ windows = {}
    /\ hookOwner = 0
    /\ sessions = <<>>
    /\ calls = [c \in CallIds |-> IdleCall]
    /\ captureCount = 0
    /\ hist = <<>>
    /\ providerCache = [a \in AnilistIds |-> ""]
    /\ activeBaseUrl = ""
    /\ fetches = [c \in CallIds |-> IdleFetch]
    /\ matchHist = NewMatchHist
    /\ requests = [q \in ReqIds |-> IdleRequest]
    /\ regHist = NewRegHist

Init ==
    /\ ProgramInit
    /\ rewriteRun = NoRewrite
    /\ findRun = NoFind

\* app.whenReady: await startProxyServer(), then registerIpcHandlers()
StartProxyServer(port) ==
    /\ appState = "starting"
    /\ server' = TRUE
    /\ proxyPort' = port
    /\ appState' = "running"
    /\ UNCHANGED <<matchVars, proxyVars, pureVars, extractorWindow, activeReferer, windows, hookOwner, sessions,
                   calls, captureCount, hist>>

\* ipcMain.handle('provider:fetch-sources'): getEpisodeSources up to its
\* await fetchText(episodeUrl)
FetchSources(c) ==
    /\ appState = "running"
    /\ calls[c].pc = "idle"
    /\ \A d \in 1..(c - 1) : calls[d].pc # "idle"
    /\ calls' = [calls EXCEPT ![c].pc = "episode"]
    /\ UNCHANGED <<matchVars, proxyVars, pureVars, appState, server, proxyPort, extractorWindow, activeReferer,
                   windows, hookOwner, sessions, captureCount, hist>>

\* fetchText(episodeUrl) throws: getEpisodeSources rejects
EpisodeFetchFailed(c) ==
    /\ appState = "running"
    /\ calls[c].pc = "episode"
    /\ calls' = [calls EXCEPT ![c].pc = "thrown", ![c].error = HttpError]
    /\ UNCHANGED <<matchVars, proxyVars, pureVars, appState, server, proxyPort, extractorWindow, activeReferer,
                   windows, hookOwner, sessions, captureCount, hist>>

\* the episode page arrived: parse the servers, throw when there are none,
\* else start on the first server (its wrapper fetch)
EpisodeFetched(c, page) ==
    /\ appState = "running"
    /\ calls[c].pc = "episode"
    /\ LET servers == parseServers(page)
       IN  calls' = [calls EXCEPT ![c] =
                IF Len(servers) = 0
                THEN [@ EXCEPT !.pc = "thrown", !.error = NoServersError]
                ELSE [@ EXCEPT !.servers = servers, !.idx = 1, !.pc = "wrapper"]]
    /\ UNCHANGED <<matchVars, proxyVars, pureVars, appState, server, proxyPort, extractorWindow, activeReferer,
                   windows, hookOwner, sessions, captureCount, hist>>

\* extractViaHiddenWindow after its wrapper fetch: the promise executor creates
\* the window, arms the 25 s timer, installs the listeners and loads the page
OpenSession(c) ==
    /\ appState = "running"
    /\ calls[c].pc = "wrapper"
    /\ Len(sessions) < MaxSessions
    /\ LET embedUrl == calls[c].servers[calls[c].idx]
           id       == Len(sessions) + 1
       IN  /\ \E page \in WrapperPages(embedUrl) :
                sessions' = Append(sessions,
                                   newSession(c, embedUrl, resolvePlayerUrl(embedUrl, page)))
           /\ windows' = windows \cup {id}
           /\ hookOwner' = id
    /\ hist' = Append(hist, NewHist)
    /\ calls' = [calls EXCEPT ![c].pc = "session"]
    /\ UNCHANGED <<matchVars, proxyVars, pureVars, appState, server, proxyPort, extractorWindow, activeReferer,
                   captureCount>>

\* a request on 'persist:extractor' (from a hidden window or from the webview)
\* reaches the installed onBeforeRequest listener
Request(url) ==
    /\ appState = "running"
    /\ hookOwner # 0
    /\ windows # {} \/ webviewMounted
    /\ qualifies(url) => captureCount < MaxCaptures
    /\ sessions' = [sessions EXCEPT ![hookOwner] = onBeforeRequest(@, url)]
    /\ captureCount' = IF qualifies(url) THEN captureCount + 1 ELSE captureCount
    /\ hist' = [hist EXCEPT ![hookOwner] =
                  IF qualifies(url) /\ sessions[hookOwner].outcome = "pending"
                  THEN [@ EXCEPT !.observed = Append(@, url), !.sinceCapture = 0]
                  ELSE @]
    /\ UNCHANGED <<matchVars, proxyVars, pureVars, appState, server, proxyPort, extractorWindow, activeReferer,
                   windows, hookOwner, calls>>

\* a timer callback ran on session id: the window it destroyed, and the
\* continuation of the awaiting getEpisodeSources when the promise settled
AfterCallback(id, before, after, by) ==
    /\ sessions' = [sessions EXCEPT ![id] = after]
    /\ windows' = IF after.destroyCalls > before.destroyCalls
                  THEN windows \ {id} ELSE windows
    /\ calls' = IF before.outcome = "pending" /\ after.outcome # "pending"
                THEN [calls EXCEPT ![before.call] = afterSession(@, id, after)]
                ELSE calls
    /\ hist' = [hist EXCEPT ![id] = histAfterSettle(@, before, after, by)]

\* the 25 s timer of a session is due
TimeoutFire(id) ==
    /\ appState = "running"
    /\ sessions[id].timeout = 0
    /\ AfterCallback(id, sessions[id],
                     [timeoutCallback(id, sessions[id]) EXCEPT !.timeout = -1], "ceiling")
    /\ UNCHANGED <<matchVars, proxyVars, pureVars, appState, server, proxyPort, extractorWindow, activeReferer,
                   hookOwner, captureCount>>

\* the oldest 2 s timer of a session is due
DebounceFire(id) ==
    /\ appState = "running"
    /\ sessions[id].debounce # <<>>
    /\ Head(sessions[id].debounce) = 0
    /\ AfterCallback(id, sessions[id],
                     [debounceCallback(id, sessions[id]) EXCEPT !.debounce = Tail(@)],
                     "debounce")
    /\ UNCHANGED <<matchVars, proxyVars, pureVars, appState, server, proxyPort, extractorWindow, activeReferer,
                   hookOwner, captureCount>>

timerDue(sess) ==
    sess.timeout = 0 \/ (sess.debounce # <<>> /\ Head(sess.debounce) = 0)

timerActive(sess) == sess.timeout > 0 \/ sess.debounce # <<>>

\* the remaining times of all armed timers
armedTimers ==
    UNION { {sessions[id].timeout} \cap (1..CeilingMs) : id \in SessionIds }
      \cup UNION { {sessions[id].debounce[i] : i \in 1..Len(sessions[id].debounce)} :
                   id \in SessionIds }

\* how far the clock moves in one step: TickMs while a debounce timer is armed,
\* IdleMs otherwise, and never past the next timer that comes due
clockStep ==
    LET grid == IF \E id \in SessionIds : sessions[id].debounce # <<>>
                THEN TickMs ELSE IdleMs
        next == CHOOSE t \in armedTimers : \A u \in armedTimers : t <= u
    IN  IF next < grid THEN next ELSE grid

\* time passes: no timer is due, every armed timer comes clockStep closer
Tick ==
    /\ appState = "running"
    /\ \E id \in SessionIds : timerActive(sessions[id])
    /\ \A id \in SessionIds : ~timerDue(sessions[id])
    /\ LET d == clockStep
       IN  /\ sessions' = [id \in SessionIds |->
                             [sessions[id] EXCEPT
                                !.timeout = IF @ > 0 THEN @ - d ELSE @,
                                !.debounce = [i \in 1..Len(@) |-> @[i] - d]]]
           /\ hist' = [id \in SessionIds |->
                         IF sessions[id].outcome = "pending"
                         THEN [hist[id] EXCEPT
                                 !.age = @ + d,
                                 !.sinceCapture = IF hist[id].observed # <<>>
                                                  THEN @ + d ELSE @]
                         ELSE hist[id]]
    /\ UNCHANGED <<matchVars, proxyVars, pureVars, appState, server, proxyPort, extractorWindow, activeReferer,
                   windows, hookOwner, calls, captureCount>>

\* app 'before-quit': stopProxyServer() = cleanupExtractorWindow(), server.close();
\* then the process exits, and with it every window, promise and timer
StopProxyServer ==
    /\ appState = "running"
    /\ extractorWindow' = 0
    /\ server' = FALSE
    /\ appState' = "quit"
    /\ windows' = {}
    /\ hookOwner' = 0
    /\ sessions' = <<>>
    /\ hist' = <<>>
    /\ calls' = [c \in CallIds |-> IdleCall]
    /\ captureCount' = 0
    /\ UNCHANGED <<matchVars, proxyVars, pureVars, proxyPort, activeReferer>>

\* getEpisodeSources starts fetching the episode page once fetchEpisodeSources
\* handed it a slug and getBaseUrl returned
callAfterFetch(call, before, after) ==
    IF before.pc # "sources" /\ after.pc = "sources"
    THEN [call EXCEPT !.pc = "episode"]
    ELSE call

\* ipcMain.handle('provider:fetch-sources'): fetchEpisodeSources up to its
\* first await: the mapping lookup, then search(title) or getEpisodeSources,
\* each of which starts with getBaseUrl
FetchEpisodeSources(c, opts) ==
    /\ appState = "running"
    /\ fetches[c].pc = "idle"
    /\ calls[c].pc = "idle"
    /\ \A d \in 1..(c - 1) : fetches[d].pc # "idle"
    /\ LET slug == getProviderMapping(providerCache, opts.anilistId)
           f0 == [IdleFetch EXCEPT !.opts = opts, !.slug = slug,
                                   !.cachedAtStart = providerCache[opts.anilistId],
                                   !.stage = IF slug # "" THEN 0 ELSE 1,
                                   !.afterClear = matchHist.clearedFresh[opts.anilistId]]
           f1 == getBaseUrl(f0, activeBaseUrl, IF slug # "" THEN "episode" ELSE "search",
                            matchHist.resetFresh)
       IN  /\ fetches' = [fetches EXCEPT ![c] = f1]
           /\ calls' = [calls EXCEPT ![c] = callAfterFetch(@, fetches[c], f1)]
    /\ UNCHANGED <<providerCache, activeBaseUrl, matchHist>>
    /\ UNCHANGED <<appState, server, proxyPort, extractorWindow, activeReferer,
                   windows, hookOwner, sessions, captureCount, hist, proxyVars, pureVars>>

\* the probe of DOMAINS[probeIdx] settled: on a fingerprint memoize the
\* redirected origin and return it; else probe the next candidate, or fall
\* back to DOMAINS[0] after the last
ProbeAnswered(c, resp) ==
    /\ appState = "running"
    /\ fetches[c].pc = "probe"
    /\ LET f == fetches[c]
           domain == DOMAINS[f.probeIdx]
           memo == IF resp.ok THEN probeHit(domain, resp)
                   ELSE IF f.probeIdx < Len(DOMAINS) THEN activeBaseUrl
                   ELSE fallbackBase
           logged == [f EXCEPT !.resolution.log =
                                  Append(@, [domain |-> domain, ok |-> resp.ok,
                                             finalUrl |-> resp.finalUrl]),
                               !.resolution.memoized =
                                  IF ~resp.ok /\ f.probeIdx < Len(DOMAINS) THEN "" ELSE memo]
           f1 == IF ~resp.ok /\ f.probeIdx < Len(DOMAINS)
                 THEN [logged EXCEPT !.probeIdx = @ + 1]
                 ELSE afterBaseUrl(logged, memo)
       IN  /\ resp \in ProbeResponses(domain)
           /\ activeBaseUrl' = memo
           /\ fetches' = [fetches EXCEPT ![c] = f1]
           /\ calls' = [calls EXCEPT ![c] = callAfterFetch(@, f, f1)]
           /\ matchHist' = [matchHist EXCEPT !.resetFresh = @ /\ memo = ""]
    /\ UNCHANGED providerCache
    /\ UNCHANGED <<appState, server, proxyPort, extractorWindow, activeReferer,
                   windows, hookOwner, sessions, captureCount, hist, proxyVars, pureVars>>

\* fetchText(search url) settled inside `await gogoanime.search(term)`: an
\* error rejects fetchEpisodeSources; a page is scored; an accepted match is
\* cached and handed to getEpisodeSources; else the next query is searched
\* for, or after the last the memo is reset and not-found is thrown
SearchAnswered(c, resp) ==
    /\ appState = "running"
    /\ fetches[c].pc = "search"
    /\ LET f == fetches[c]
           o == f.opts
           best == bestOf[o][resp.results]
       IN  IF ~resp.ok
           THEN /\ fetches' = [fetches EXCEPT ![c] =
                                  [f EXCEPT !.pc = "thrown", !.error = SearchHttpError]]
                /\ UNCHANGED <<providerCache, activeBaseUrl, matchHist, calls>>
           ELSE IF best # NoResult
           THEN LET f1 == getBaseUrl([f EXCEPT !.slug = best.id, !.wrote = TRUE],
                                     activeBaseUrl, "episode", matchHist.resetFresh)
                IN  /\ providerCache' = [providerCache EXCEPT ![o.anilistId] = best.id]
                    /\ matchHist' =
                          [matchHist EXCEPT
                              !.written = @ \cup
                                  {[anilistId |-> o.anilistId, id |-> best.id,
                                    listed |-> contains(resp.results, best),
                                    audioType |-> o.audioType,
                                    dub |-> dubTable[best],
                                    dubListed |-> \E i \in 1..Len(resp.results) :
                                                     dubTable[resp.results[i]],
                                    score |-> scoreTable[o][best].score,
                                    unit |-> scoreTable[o][best].unit]},
                              !.clearedFresh[o.anilistId] = "no"]
                    /\ fetches' = [fetches EXCEPT ![c] = f1]
                    /\ calls' = [calls EXCEPT ![c] = callAfterFetch(@, f, f1)]
                    /\ UNCHANGED activeBaseUrl
           ELSE IF f.stage < Len(strategies[o])
           THEN /\ fetches' = [fetches EXCEPT ![c] =
                                  getBaseUrl([f EXCEPT !.stage = @ + 1],
                                             activeBaseUrl, "search", matchHist.resetFresh)]
                /\ UNCHANGED <<providerCache, activeBaseUrl, matchHist, calls>>
           ELSE /\ activeBaseUrl' = ""
                /\ matchHist' = [matchHist EXCEPT !.resetFresh = TRUE]
                /\ fetches' = [fetches EXCEPT ![c] =
                                  [f EXCEPT !.pc = "thrown", !.error = NotFoundError(o)]]
                /\ UNCHANGED <<providerCache, calls>>
    /\ UNCHANGED <<appState, server, proxyPort, extractorWindow, activeReferer,
                   windows, hookOwner, sessions, captureCount, hist, proxyVars, pureVars>>

\* ipcMain.handle('provider:clear-cache'): clearProviderMapping(anilistId)
ClearProviderMapping(a) ==
    /\ appState = "running"
    /\ matchHist.clears < MaxClears
    /\ providerCache' = clearProviderMapping(providerCache, a)
    /\ matchHist' = [matchHist EXCEPT
                        !.clearedFresh[a] = IF providerCache[a] # "" THEN "row" ELSE "empty",
                        !.clears = @ + 1]
    /\ UNCHANGED <<activeBaseUrl, fetches>>
    /\ UNCHANGED <<appState, server, proxyPort, extractorWindow, activeReferer,
                   windows, hookOwner, sessions, calls, captureCount, hist,
                   proxyVars, pureVars>>

\* a caller of proxy.ts creates the BrowserWindow it will register
CreateWindow(w) ==
    /\ appState = "running"
    /\ w = regHist.created + 1
    /\ windows' = windows \cup {w}
    /\ regHist' = [regHist EXCEPT !.created = w]
    /\ UNCHANGED <<appState, server, proxyPort, extractorWindow, activeReferer, hookOwner,
                   sessions, calls, captureCount, hist, matchVars, requests, pureVars>>

\* setExtractorWindow(win, referer)
SetExtractorWindow(w, referer) ==
    /\ appState = "running"
    /\ w \in windows
    /\ windows' = IF getExtractorWindow # 0 THEN windows \ {extractorWindow} ELSE windows
    /\ extractorWindow' = w
    /\ activeReferer' = referer
    /\ regHist' = [regHist EXCEPT !.last = [win |-> w, referer |-> referer]]
    /\ UNCHANGED <<appState, server, proxyPort, hookOwner, sessions, calls, captureCount,
                   hist, matchVars, requests, pureVars>>

\* cleanupExtractorWindow()
CleanupExtractorWindow ==
    /\ appState = "running"
    /\ windows' = IF getExtractorWindow # 0 THEN windows \ {extractorWindow} ELSE windows
    /\ extractorWindow' = 0
    /\ UNCHANGED <<appState, server, proxyPort, activeReferer, hookOwner, sessions, calls,
                   captureCount, hist, matchVars, proxyVars, pureVars>>

\* the owner of a window destroys it: win.destroy()
DestroyWindow(w) ==
    /\ appState = "running"
    /\ w \in windows
    /\ windows' = windows \ {w}
    /\ UNCHANGED <<appState, server, proxyPort, extractorWindow, activeReferer, hookOwner,
                   sessions, calls, captureCount, hist, matchVars, proxyVars, pureVars>>

\* an HTTP request arrives: handleRequest runs up to its first await
ProxyRequest(q, method, reqUrl) ==
    /\ appState = "running"
    /\ server
    /\ requests[q].pc = "idle"
    /\ \A p \in 1..(q - 1) : requests[p].pc # "idle"
    /\ requests' = [requests EXCEPT ![q] =
                       [handleRequest(method, reqUrl,
                                      registrationStatus(
                                          requestTable[proxyPort][method][reqUrl].route,
                                          getExtractorWindow),
                                      requestTable[proxyPort][method][reqUrl].targetUrl,
                                      getExtractorWindow)
                          EXCEPT !.registered = extractorWindow,
                                 !.alive = extractorWindow \in windows]]
    /\ UNCHANGED <<appState, server, proxyPort, extractorWindow, activeReferer, windows,
                   hookOwner, sessions, calls, captureCount, hist, matchVars, regHist,
                   pureVars>>

\* net.fetch(targetUrl) resolved
UpstreamAnswered(q, up) ==
    /\ appState = "running"
    /\ requests[q].pc = "fetch"
    /\ requests' = [requests EXCEPT ![q] =
                       sessionFetchAnswered(@, up,
                                            responseTable[proxyPort][@.targetUrl][up])]
    /\ UNCHANGED <<appState, server, proxyPort, extractorWindow, activeReferer, windows,
                   hookOwner, sessions, calls, captureCount, hist, matchVars, regHist,
                   pureVars>>

\* net.fetch(targetUrl) rejected
UpstreamFailed(q) ==
    /\ appState = "running"
    /\ requests[q].pc = "fetch"
    /\ requests' = [requests EXCEPT ![q] = sessionFetchRejected(@)]
    /\ UNCHANGED <<appState, server, proxyPort, extractorWindow, activeReferer, windows,
                   hookOwner, sessions, calls, captureCount, hist, matchVars, regHist,
                   pureVars>>

\* the backoff timer of sessionFetch fired: the next attempt's net.fetch
RetryDue(q) ==
    /\ appState = "running"
    /\ requests[q].pc = "wait"
    /\ requests' = [requests EXCEPT ![q].pc = "fetch", ![q].attempt = @ + 1]
    /\ UNCHANGED <<appState, server, proxyPort, extractorWindow, activeReferer, windows,
                   hookOwner, sessions, calls, captureCount, hist, matchVars, regHist,
                   pureVars>>

Next ==
    \/ \E port \in Ports : StartProxyServer(port)
    \/ \E c \in CallIds : FetchSources(c)
    \/ \E c \in CallIds : EpisodeFetchFailed(c)
    \/ \E c \in CallIds : \E page \in EpisodePages : EpisodeFetched(c, page)
    \/ \E c \in CallIds : OpenSession(c)
    \/ \E url \in RequestUrls : Request(url)
    \/ \E id \in SessionIds : TimeoutFire(id)
    \/ \E id \in SessionIds : DebounceFire(id)
    \/ Tick
    \/ StopProxyServer

Spec == Init /\ [][Next]_vars

\* The request hooks on their own: one call up to its extraction session, and
\* the requests of the hidden window reaching the onBeforeRequest listener.
HookNext ==
    \/ \E port \in Ports : StartProxyServer(port)
    \/ \E c \in CallIds : FetchSources(c)
    \/ \E c \in CallIds : \E page \in EpisodePages : EpisodeFetched(c, page)
    \/ \E c \in CallIds : OpenSession(c)
    \/ \E url \in HookUrls : Request(url)

HookSpec == Init /\ [][HookNext]_vars

\* fetchEpisodeSources from the IPC call to the episode page: the mapping
\* cache, the mirror resolver, the search strategies and the episode fetch.
\* The extraction sessions that follow the episode page are Spec's.
MatchNext ==
    \/ \E port \in Ports : StartProxyServer(port)
    \/ \E c \in CallIds : \E opts \in FetchOpts : FetchEpisodeSources(c, opts)
    \/ \E c \in CallIds : \E resp \in AllProbeResponses : ProbeAnswered(c, resp)
    \/ \E c \in CallIds : \E resp \in SearchResponses : SearchAnswered(c, resp)
    \/ \E a \in AnilistIds : ClearProviderMapping(a)
    \/ \E c \in CallIds : EpisodeFetchFailed(c)
    \/ \E c \in CallIds : \E page \in { p \in EpisodePages : Len(p) <= 1 } :
           EpisodeFetched(c, page)

MatchSpec == Init /\ [][MatchNext]_vars

\* The proxy module driven through its exported functions and its HTTP port.
ProxyNext ==
    \/ \E port \in Ports : StartProxyServer(port)
    \/ \E w \in WindowIds : CreateWindow(w)
    \/ \E w \in WindowIds : \E referer \in Referers : SetExtractorWindow(w, referer)
    \/ CleanupExtractorWindow
    \/ \E w \in WindowIds : DestroyWindow(w)
    \/ \E q \in ReqIds : \E r \in ClientRequests(proxyPort) :
          ProxyRequest(q, r.method, r.reqUrl)
    \/ \E q \in ReqIds : \E up \in UpstreamResponses : UpstreamAnswered(q, up)
    \/ \E q \in ReqIds : UpstreamFailed(q)
    \/ \E q \in ReqIds : RetryDue(q)
    \/ StopProxyServer

ProxySpec == Init /\ [][ProxyNext]_vars

\* ------------------------------------------------------------------
\* rewritePlaylist applied to one playlist
\* ------------------------------------------------------------------

\* lines an upstream playlist is made of: blank, tags without and with a URI
\* attribute (relative and absolute), segment references (relative, absolute,
\* padded, with a CR left by CRLF line ends), a tag with two URI attributes,
\* and a segment reference whose query holds the text URI="
PlaylistLines ==
    { "",
      "#EXTM3U",
      "#EXT-X-KEY:METHOD=AES-128,URI=\"key.bin\",IV=0x1",
      "#EXT-X-MAP:URI=\"https://cdn/init.mp4\"",
      " seg1.ts\r",
      "https://cdn/seg2.ts",
      "../v/seg3.ts",
      "#EXT-X-MEDIA:URI=\"a.m3u8\",URI=\"b.m3u8\"",
      "seg4.ts?k=URI=\"x\"" }

\* URLs a playlist is fetched from
PlaylistUrls == { "https://cdn/a/b/index.m3u8", "https://cdn/a/b/index.m3u8?x=/y" }

\* playlists of up to MaxLines lines
PlaylistTexts ==
    { joinLines(ls) : ls \in UNION { [1..n -> PlaylistLines] : n \in 1..MaxLines } }

RewriteInit ==
    /\ ProgramInit
    /\ findRun = NoFind
    /\ rewriteRun \in { [NoRewrite EXCEPT !.content = c, !.playlistUrl = u] :
                           c \in PlaylistTexts, u \in PlaylistUrls }

\* rewritePlaylist(content, playlistUrl), called by handleRequest while the
\* server runs
RewritePlaylist ==
    /\ appState = "running"
    /\ server
    /\ ~rewriteRun.done
    /\ rewriteRun' = [rewriteRun EXCEPT
                         !.done = TRUE,
                         !.output = rewritePlaylist(proxyPort, rewriteRun.content,
                                                    rewriteRun.playlistUrl)]
    /\ UNCHANGED <<appState, server, proxyPort, extractorWindow, activeReferer, windows,
                   hookOwner, sessions, calls, captureCount, hist, matchVars, proxyVars,
                   findRun, watch, library>>

RewriteNext ==
    \/ \E port \in Ports : StartProxyServer(port)
    \/ RewritePlaylist

RewriteSpec == RewriteInit /\ [][RewriteNext]_vars

\* ------------------------------------------------------------------
\* findBestMatch applied to one result list
\* ------------------------------------------------------------------

\* provider results a search can return for the titles below: the exact
\* title, its dub, two shorter titles contained in it, one that shares half
\* of its words, and a sequel whose title contains it
FindCatalogue ==
    { [id |-> "tokyo-ghoul",     title |-> "Tokyo Ghoul"],
      [id |-> "tokyo-ghoul-dub", title |-> "Tokyo Ghoul (Dub)"],
      [id |-> "tokyo",           title |-> "Tokyo"],
      [id |-> "tokyo-g",         title |-> "Tokyo G"],
      [id |-> "tokyo-x",         title |-> "Tokyo X"],
      [id |-> "tokyo-ghoul-re",  title |-> "Tokyo Ghoul Re"] }

\* catalogue titles asked for: a title alone, and a title with a shorter
\* English title
FindTitles ==
    { [title |-> "Tokyo Ghoul!", titleEnglish |-> ""],
      [title |-> "Tokyo Ghoul Re", titleEnglish |-> "Tokyo G"] }

\* result lists of up to MaxResults results
FindResults == UNION { [1..n -> FindCatalogue] : n \in 0..MaxResults }

FindInit ==
    /\ ProgramInit
    /\ rewriteRun = NoRewrite
    /\ findRun \in { [NoFind EXCEPT !.results = rs, !.title = t.title,
                                    !.titleEnglish = t.titleEnglish, !.audioType = a] :
                        rs \in FindResults, t \in FindTitles, a \in {"sub", "dub"} }

\* findBestMatch(results, title, titleEnglish, audioType)
FindBestMatch ==
    /\ ~findRun.done
    /\ findRun' = [findRun EXCEPT
                      !.done = TRUE,
                      !.best = findBestMatch(findRun.results, findRun.title,
                                             findRun.titleEnglish, findRun.audioType)]
    /\ UNCHANGED <<appState, server, proxyPort, extractorWindow, activeReferer, windows,
                   hookOwner, sessions, calls, captureCount, hist, matchVars, proxyVars,
                   rewriteRun, watch, library>>

FindNext == FindBestMatch

FindSpec == FindInit /\ [][FindNext]_vars

\* ------------------------------------------------------------------
\* Helpers of the properties
\* ------------------------------------------------------------------

RECURSIVE isSubsequence(_, _)
\* a occurs in b, in order (not necessarily contiguously)
isSubsequence(a, b) ==
    IF a = <<>> THEN TRUE
    ELSE IF b = <<>> THEN FALSE
    ELSE IF Head(a) = Head(b) THEN isSubsequence(Tail(a), Tail(b))
    ELSE isSubsequence(a, Tail(b))

\* the real URLs a list of sources points at, read the way the proxy reads them
targetsOf(sources) == [i \in 1..Len(sources) |-> proxyTarget(sources[i].url)]

\* the ids of the sessions a call opened, and the k-th of them
sessionsOf(c) == { id \in SessionIds : sessions[id].call = c }

nthSessionOf(c, k) ==
    CHOOSE id \in sessionsOf(c) : Cardinality({ j \in sessionsOf(c) : j <= id }) = k

pending(id) == sessions[id].outcome = "pending"

\* ------------------------------------------------------------------
\* Properties
\* ------------------------------------------------------------------

\* C1: once a call has returned a StreamingInfo, a proxy request for any of
\* its source URLs is not answered 503 for lack of a registered window.
C1_ReturnedSourcesServed ==
    \A c \in CallIds :
        calls[c].pc = "returned" =>
            \A i \in 1..Len(sessions[calls[c].result.sources].capturedUrls) :
                handleRequestEarlyStatus(
                    "GET", sessions[calls[c].result.sources].capturedUrls[i].url) # 503

\* C2: every source in every capture buffer, hence in every StreamingInfo an
\* extraction returns, has the url http://127.0.0.1:<proxy port>/proxy?url=
\* followed by the encoded real URL; no raw request URL is ever buffered.
C2_SourcesAreProxyUrls ==
    \A id \in SessionIds :
        \A i \in 1..Len(sessions[id].capturedUrls) :
            LET url == sessions[id].capturedUrls[i].url
            IN  /\ proxyPort \in Ports
                /\ startsWith(url, "http://127.0.0.1:" \o portString[proxyPort] \o "/proxy?url=")
                /\ url \notin RequestUrls
                /\ proxyTarget(url) \in RequestUrls

\* C2 witness: a call returned, through the ceiling path, a StreamingInfo
\* holding a manifest source and a direct-media source.
C2_Witness ==
    \E c \in CallIds :
        /\ calls[c].pc = "returned"
        /\ LET id == calls[c].result.sources
           IN  /\ hist[id].settledBy = "ceiling"
               /\ \E i, j \in 1..Len(hist[id].settledSources) :
                    /\ hist[id].settledSources[i].isM3U8
                    /\ ~hist[id].settledSources[j].isM3U8

\* C3: a session that resolves through the debounce does so only when
\* DebounceMs have passed since its most recent qualifying capture.
C3_DebounceRestarts ==
    \A id \in SessionIds :
        hist[id].settledBy = "debounce" => hist[id].settledGap >= DebounceMs

\* C4: every qualifying capture a session observed before it settled is in
\* the sources it resolved with, in capture order; a session that rejects
\* observed none.
C4_CapturesReturned ==
    \A id \in SessionIds :
        /\ sessions[id].outcome = "resolved" =>
              isSubsequence(hist[id].observed, targetsOf(hist[id].settledSources))
        /\ sessions[id].outcome = "rejected" => hist[id].observed = <<>>

\* C4 witness: a session resolved through the debounce after two captures,
\* the second of them TickMs before the resolution.
C4_Witness ==
    \E id \in SessionIds :
        /\ sessions[id].outcome = "resolved"
        /\ hist[id].settledBy = "debounce"
        /\ Len(hist[id].observed) = 2
        /\ hist[id].settledGap = TickMs

\* C5: a pending session always has its ceiling timer armed and due CeilingMs
\* after the session started, so it settles by then; a session that settles
\* without having observed a qualifying capture rejects with the timeout error.
C5_SettlesByCeiling ==
    \A id \in SessionIds :
        /\ pending(id) =>
              /\ sessions[id].timeout \in 0..CeilingMs
              /\ hist[id].age = CeilingMs - sessions[id].timeout
        /\ ~pending(id) =>
              /\ ~hist[id].settledLate
              /\ hist[id].observed = <<>> =>
                    /\ sessions[id].outcome = "rejected"
                    /\ hist[id].settledBy = "ceiling"
                    /\ sessions[id].error =
                          "Timeout: no video URL found from " \o sessions[id].embedUrl

\* C5 witness: a session was rejected by its ceiling timer.
C5_Witness ==
    \E id \in SessionIds :
        /\ sessions[id].outcome = "rejected"
        /\ hist[id].settledBy = "ceiling"
        /\ hist[id].observed = <<>>

\* C6: a session its ceiling timer settles with a non-empty buffer resolves
\* with the buffer, headers {Referer: playerUrl} and embedUrl = playerUrl, its
\* call returns that StreamingInfo, and a debounce timer firing afterwards
\* changes nothing: the window was destroyed once and the outcome stands.
C6_CeilingPartialSuccess ==
    \A id \in SessionIds :
        (hist[id].settledBy = "ceiling" /\ hist[id].settledSources # <<>>) =>
            /\ sessions[id].outcome = "resolved"
            /\ sessions[id].info = [sources |-> id,
                                    headers |-> [Referer |-> sessions[id].playerUrl],
                                    embedUrl |-> sessions[id].playerUrl]
            /\ isSubsequence(hist[id].settledSources, sessions[id].capturedUrls)
            /\ sessions[id].destroyCalls = 1
            /\ id \notin windows
            /\ calls[sessions[id].call].pc = "returned"
            /\ calls[sessions[id].call].result = sessions[id].info

\* C6 witness: the ceiling timer resolved a session with a non-empty buffer
\* and the debounce timer that was pending then has fired since.
C6_Witness ==
    \E id \in SessionIds :
        /\ hist[id].settledBy = "ceiling"
        /\ hist[id].settledSources # <<>>
        /\ sessions[id].debounce = <<>>

\* C7: at most one session is pending with its window alive.
C7_OneLiveSession ==
    Cardinality({ id \in SessionIds : pending(id) /\ id \in windows }) <= 1

\* C8: the sources of a StreamingInfo that was returned stay what they were
\* when the session resolved.
C8_ReturnedSourcesUnchanged ==
    \A id \in SessionIds :
        sessions[id].outcome = "resolved" =>
            sessions[id].capturedUrls = hist[id].settledSources

\* C9: the k-th session of a call is for the k-th discovered server and is
\* opened only after every earlier session of the call failed; a session that
\* resolves is the call's last and the call returns its StreamingInfo; after a
\* failed session the call moves on to the next server, or throws after the
\* last one.
C9_ServersInOrder ==
    \A c \in CallIds :
        LET n == Cardinality(sessionsOf(c))
        IN  /\ n <= Len(calls[c].servers)
            /\ calls[c].pc = "returned" => n >= 1
            /\ (n = 0 /\ calls[c].pc = "wrapper") => calls[c].idx = 1
            /\ \A k \in 1..n :
                 LET id == nthSessionOf(c, k)
                 IN  /\ sessions[id].embedUrl = calls[c].servers[k]
                     /\ k < n => sessions[id].outcome = "rejected"
                     /\ sessions[id].outcome = "resolved" =>
                           /\ calls[c].pc = "returned"
                           /\ calls[c].result = sessions[id].info
                           /\ hist[id].settledSources # <<>>
                     /\ (k = n /\ sessions[id].outcome = "pending") =>
                           /\ calls[c].pc = "session"
                           /\ calls[c].idx = k
                     /\ (k = n /\ sessions[id].outcome = "rejected") =>
                           IF k < Len(calls[c].servers)
                           THEN calls[c].pc = "wrapper" /\ calls[c].idx = k + 1
                           ELSE calls[c].pc = "thrown"

\* C9 witness: a call returned from the session of its second server after the
\* session of its first server failed.
C9_Witness ==
    \E c \in CallIds :
        /\ calls[c].pc = "returned"
        /\ Cardinality(sessionsOf(c)) = 2
        /\ sessions[nthSessionOf(c, 1)].outcome = "rejected"
        /\ calls[c].result = sessions[nthSessionOf(c, 2)].info

\* C10: a call that throws for lack of servers opened no session; a call that
\* throws after trying its servers opened one session per server, all failed,
\* and throws the error of the last of them.
C10_ThrownErrors ==
    \A c \in CallIds :
        calls[c].pc = "thrown" =>
            IF calls[c].servers = <<>>
            THEN /\ calls[c].error \in {NoServersError, HttpError}
                 /\ sessionsOf(c) = {}
            ELSE /\ Cardinality(sessionsOf(c)) = Len(calls[c].servers)
                 /\ \A id \in sessionsOf(c) : sessions[id].outcome = "rejected"
                 /\ calls[c].error =
                       sessions[nthSessionOf(c, Len(calls[c].servers))].error
                 /\ calls[c].error =
                       "Timeout: no video URL found from "
                           \o calls[c].servers[Len(calls[c].servers)]

\* C10 witness: one call threw the no-servers error and another threw after
\* the sessions of both its servers failed.
C10_Witness ==
    \E c, d \in CallIds :
        /\ calls[c].pc = "thrown"
        /\ calls[c].error = NoServersError
        /\ calls[d].pc = "thrown"
        /\ Len(calls[d].servers) = 2
        /\ Cardinality(sessionsOf(d)) = 2

\* C11: while title matching is under way an error reaches the caller only
\* after every search strategy of the call was tried: a fetchEpisodeSources
\* that threw before it had a slug searched for each of its queries.
C11_ErrorOnlyAfterAllStrategies ==
    \A c \in CallIds :
        (fetches[c].pc = "thrown" /\ fetches[c].slug = "") =>
            fetches[c].searched = strategies[fetches[c].opts]

\* C12: a fetchEpisodeSources that finds a mapping for its anilistId issues
\* no search, never reaches the point where findBestMatch is called, writes
\* no mapping, and fetches the episode page of exactly the cached slug.
C12_CachedSlugUsed ==
    \A c \in CallIds :
        fetches[c].cachedAtStart # "" =>
            /\ fetches[c].searched = <<>>
            /\ fetches[c].pc \in {"probe", "sources"}
            /\ fetches[c].then = "episode"
            /\ ~fetches[c].wrote
            /\ fetches[c].slug = fetches[c].cachedAtStart
            /\ fetches[c].pc = "sources" =>
                  /\ calls[c].pc # "idle"
                  /\ fetches[c].url =
                        fetches[c].resolution.base \o "/" \o fetches[c].cachedAtStart
                            \o "-episode-" \o numToString(fetches[c].opts.episodeNumber)

\* C12 witness: a call that found a mapping is fetching the episode page.
C12_Witness ==
    \E c \in CallIds :
        /\ fetches[c].cachedAtStart # ""
        /\ fetches[c].pc = "sources"
        /\ calls[c].pc = "episode"

\* C13: every stored mapping slug is the id of an entry of a search page
\* that findBestMatch returned with a score above 30; a fetchEpisodeSources
\* that ends in not-found wrote no mapping.
C13_MappingsWereAccepted ==
    /\ \A a \in AnilistIds :
          providerCache[a] # "" =>
              \E w \in matchHist.written :
                  /\ w.anilistId = a
                  /\ w.id = providerCache[a]
                  /\ w.listed
                  /\ w.score > 30 * w.unit
    /\ \A c \in CallIds :
          (fetches[c].pc = "thrown" /\ fetches[c].error = NotFoundError(fetches[c].opts)) =>
              /\ ~fetches[c].wrote
              /\ fetches[c].slug = ""

\* C13 witness: a mapping is stored while another call ended in not-found.
C13_Witness ==
    \E a \in AnilistIds : \E c \in CallIds :
        /\ providerCache[a] # ""
        /\ fetches[c].pc = "thrown"
        /\ fetches[c].error = NotFoundError(fetches[c].opts)

\* C14: a stored mapping slug changes only by being cleared: no step
\* replaces the slug of an existing mapping by another slug.
C14_NoOverwriteWithoutClear ==
    [][\A a \in AnilistIds :
          (providerCache[a] # "" /\ providerCache'[a] # providerCache[a]) =>
              providerCache'[a] = ""]_vars

simplifiedOf ==
    [t \in UNION { { o.title, o.titleEnglish } : o \in FetchOpts } |-> simplify(t)]

\* the titles a call searches for: the title, and the alt title when there is
\* one that differs
titlesOf(o) ==
    IF o.titleEnglish # "" /\ o.titleEnglish # o.title
    THEN <<o.title, o.titleEnglish>>
    ELSE <<o.title>>

notFound(c) ==
    fetches[c].pc = "thrown" /\ fetches[c].error = NotFoundError(fetches[c].opts)

\* C16 (as stated): not-found is signalled only after the title and the alt
\* title were searched for and each of these queries was searched for again
\* in its simplified form.
C16_AllQueriesRetried ==
    \A c \in CallIds :
        notFound(c) =>
            LET titles == titlesOf(fetches[c].opts)
            IN  fetches[c].searched =
                    titles \o [i \in 1..Len(titles) |-> simplifiedOf[titles[i]]]

\* C16 (amended): not-found is signalled only after the title and, when there
\* is one that differs, the alt title were searched for, and after each of
\* them whose simplified form is non-empty and differs from it was searched
\* for in that form, these searches and no others, the plain ones first; once
\* a search page yielded an accepted match the call issues no further search.
C16_QueriesBeforeNotFound ==
    \A c \in CallIds :
        LET titles == titlesOf(fetches[c].opts)
            retried == { i \in 1..Len(titles) :
                           simplifiedOf[titles[i]] \notin {"", titles[i]} }
            searched == fetches[c].searched
        IN  /\ notFound(c) =>
                 /\ Len(searched) = Len(titles) + Cardinality(retried)
                 /\ SubSeq(searched, 1, Len(titles)) = titles
                 /\ \A i \in retried :
                       \E k \in (Len(titles) + 1)..Len(searched) :
                           /\ searched[k] = simplifiedOf[titles[i]]
                           /\ k = Len(titles) + Cardinality({ j \in retried : j <= i })
            /\ fetches[c].wrote =>
                 /\ fetches[c].pc \in {"probe", "sources"}
                 /\ fetches[c].then = "episode"
                 /\ Len(searched) = fetches[c].stage

\* C16 witness: a call ended in not-found after its two titles and their two
\* simplified forms were searched for.
C16_Witness ==
    \E c \in CallIds :
        /\ notFound(c)
        /\ Len(fetches[c].searched) = 4

\* C17: when a call made with audioType = dub accepts a match from a search
\* page that lists at least one dub entry, the slug it caches and fetches the
\* episode of is a dub entry.
C17_DubRequestsMatchDub ==
    \A w \in matchHist.written :
        (w.audioType = "dub" /\ w.dubListed) => w.dub

\* C18: when getEpisodeSources fails for a slug that came from the mapping
\* cache, the memoized mirror is reset by that failure.
C18_CachedSlugFailureResetsMirror ==
    [][\A c \in CallIds :
          (/\ fetches[c].cachedAtStart # ""
           /\ calls[c].pc = "episode"
           /\ calls'[c].pc = "thrown") => activeBaseUrl' = ""]_vars

\* C19: a getBaseUrl invocation probes only when it found no memo; its probes
\* go to DOMAINS in declared order, each one after all earlier ones failed;
\* while it is probing nothing is memoized or returned by it; a probe whose
\* body has a fingerprint is its last, and the invocation memoizes and
\* returns the origin of that response's final URL.
C19_ProbesInOrder ==
    \A c \in CallIds :
        LET r == fetches[c].resolution
            n == Len(r.log)
        IN  /\ n > 0 => r.memoAtStart = ""
            /\ n <= Len(DOMAINS)
            /\ \A i \in 1..n : r.log[i].domain = DOMAINS[i]
            /\ \A i \in 1..(n - 1) : ~r.log[i].ok
            /\ fetches[c].pc = "probe" =>
                  /\ fetches[c].probeIdx = n + 1
                  /\ \A i \in 1..n : ~r.log[i].ok
                  /\ r.memoized = ""
                  /\ r.base = ""
            /\ (n > 0 /\ r.log[n].ok) =>
                  /\ fetches[c].pc # "probe"
                  /\ r.memoized = finalOrigin[r.log[n].finalUrl]
                  /\ r.base = finalOrigin[r.log[n].finalUrl]

\* C19 witness: a resolution whose first probe failed and whose second probe
\* was answered after a redirect returned the redirected origin.
C19_Witness ==
    \E c \in CallIds :
        LET r == fetches[c].resolution
        IN  /\ Len(r.log) = 2
            /\ r.log[2].ok
            /\ r.base = "https://anitaku.to"
            /\ r.base # r.log[2].domain
            /\ activeBaseUrl = r.base

\* the origins getBaseUrl can memoize: the origin of a probe's final URL, or
\* the fallback DOMAINS[0]
Origins == { finalOrigin[u] : u \in DOMAIN finalOrigin } \cup { DOMAINS[1] }

allProbesFailed(r) ==
    /\ Len(r.log) = Len(DOMAINS)
    /\ \A i \in 1..Len(r.log) : ~r.log[i].ok

\* C21: a getBaseUrl invocation whose probes all failed does not fail: it
\* memoizes and returns the first candidate of DOMAINS, and the search or the
\* episode fetch that awaited it is issued against that candidate; if the call
\* ends in an error, the error is that of the search, not of the resolution.
C21_FallbackToFirstCandidate ==
    \A c \in CallIds :
        LET f == fetches[c]
            r == f.resolution
        IN  allProbesFailed(r) =>
                /\ r.memoized = DOMAINS[1]
                /\ r.base = DOMAINS[1]
                /\ f.pc \in {"search", "sources", "thrown"}
                /\ f.then = "search" =>
                      /\ f.searched # <<>>
                      /\ f.url = searchUrl(DOMAINS[1], f.searched[Len(f.searched)])
                /\ f.then = "episode" =>
                      /\ f.pc = "sources"
                      /\ f.url = episodeUrlOf(DOMAINS[1], f.slug, f.opts.episodeNumber)
                /\ f.pc = "thrown" => f.error \in {SearchHttpError, NotFoundError(f.opts)}

\* C21 witness: every probe of a resolution failed and the search that
\* awaited it is in flight against the first candidate.
C21_Witness ==
    \E c \in CallIds :
        /\ allProbesFailed(fetches[c].resolution)
        /\ fetches[c].pc = "search"
        /\ startsWith(fetches[c].url, DOMAINS[1] \o "/search.html")

\* a request for the proxy route: GET /proxy?url=<a target>
isProxyRequest(q) ==
    /\ q.pc # "idle"
    /\ q.method = "GET"
    /\ \E u \in TargetUrls : q.reqUrl = proxyUrlTable[proxyPort][u]

\* C22: a request for the proxy route that arrives while no window is
\* registered (never registered, or cleaned up) or while the registered window
\* is destroyed is answered 503 at once, and no net.fetch is issued for it.
C22_NoRegistrationIs503 ==
    \A p \in ReqIds :
        LET q == requests[p]
        IN  (isProxyRequest(q) /\ (q.registered = 0 \/ ~q.alive)) =>
                /\ q.pc = "done"
                /\ q.response.status = 503
                /\ q.attempt = 0
                /\ q.statuses = <<>>
                /\ q.upstream = NoUpstream

\* C22 witness: one request was answered 503 although a window was registered
\* (it had been destroyed), another after the registration had been cleaned up.
C22_Witness ==
    \E p, r \in ReqIds :
        /\ isProxyRequest(requests[p])
        /\ requests[p].registered # 0
        /\ ~requests[p].alive
        /\ requests[p].response.status = 503
        /\ isProxyRequest(requests[r])
        /\ requests[r].registered = 0
        /\ regHist.last # NoRegistration
        /\ requests[r].response.status = 503

\* isM3u8, per target URL and upstream response
claimsPlaylist ==
    [t \in TargetUrls |-> [up \in UpstreamResponses |-> isM3u8(t, up.contentType)]]

\* text.trimStart().startsWith('#EXTM3U'), per upstream response
hasMarker == [up \in UpstreamResponses |-> startsWith(trimStart(up.body), "#EXTM3U")]

\* sessionFetch resolved for the request and handleRequest answered it
answeredFromUpstream(q) == q.pc = "done" /\ q.upstream # NoUpstream

\* C23: whenever the upstream response claims to be a playlist (by content
\* type or by target URL) and its body does not start with #EXTM3U after
\* leading white space, the response is 502 and does not carry the upstream
\* body, whatever the upstream status.
C23_CorruptPlaylistIs502 ==
    \A p \in ReqIds :
        LET q == requests[p]
        IN  (/\ answeredFromUpstream(q)
             /\ claimsPlaylist[q.targetUrl][q.upstream]
             /\ ~hasMarker[q.upstream]) =>
                /\ q.response.status = 502
                /\ q.response.body # q.upstream.body

\* the status of the latest net.fetch of a request, 0 for a rejection
lastStatus(q) == q.statuses[Len(q.statuses)]

\* what holds of the retry loop of one request whatever the budget: every
\* wait is 300 ms times the number of the attempt before it and follows a 403
\* or a rejection, any other answer ends the request, and a request that ended
\* on a 403 hands it on with status 403, one that ended on a rejection is
\* answered 502
retryDiscipline(q) ==
    /\ \A k \in 1..Len(q.waits) : q.waits[k] = BackoffMs * k /\ q.statuses[k] \in {403, 0}
    /\ \A k \in 1..Len(q.statuses) :
          q.statuses[k] \notin {403, 0} => (k = Len(q.statuses) /\ q.pc = "done")
    /\ q.pc = "fetch" => (q.attempt = Len(q.statuses) + 1 /\ Len(q.waits) = Len(q.statuses))
    /\ q.pc = "wait" => (q.attempt = Len(q.statuses) /\ Len(q.waits) = Len(q.statuses))
    /\ (q.pc = "done" /\ q.statuses # <<>>) =>
          /\ Len(q.waits) = Len(q.statuses) - 1
          /\ lastStatus(q) = 403 =>
                (q.response.status = 403 /\ q.response.body = q.upstream.body)
          /\ lastStatus(q) = 0 => (q.response.status = 502 /\ q.upstream = NoUpstream)

\* C24 as stated: the retry discipline with a budget of 3 retries, so that a
\* 403 or a transport error reaches the client only after the third retry.
C24_ThreeRetries ==
    \A p \in ReqIds :
        LET q == requests[p]
        IN  /\ retryDiscipline(q)
            /\ Len(q.waits) <= 3
            /\ (q.pc = "done" /\ q.statuses # <<>> /\ lastStatus(q) \in {403, 0}) =>
                  Len(q.waits) = 3

\* the budget of sessionFetch as the code has it: net.fetch is called at most
\* 3 times per request, after waits of 300 ms and 600 ms; a 403 or a
\* transport error reaches the client exactly after the third attempt, and
\* the third answer always ends the request
threeAttempts(q) ==
    /\ retryDiscipline(q)
    /\ Len(q.statuses) <= Retries
    /\ Len(q.waits) <= Retries - 1
    /\ q.attempt <= Retries
    /\ Len(q.statuses) = Retries => q.pc = "done"
    /\ (q.pc = "done" /\ q.statuses # <<>> /\ lastStatus(q) \in {403, 0}) =>
          (Len(q.statuses) = Retries /\ q.waits = <<BackoffMs, 2 * BackoffMs>>)

\* C24 witness: one request saw three 403 answers and handed the 403 on,
\* another ended in 502 after a 403 between two transport errors.
C24_Witness ==
    \E p, r \in ReqIds :
        /\ requests[p].statuses = <<403, 403, 403>>
        /\ requests[p].waits = <<300, 600>>
        /\ requests[p].response.status = 403
        /\ requests[r].statuses = <<0, 403, 0>>
        /\ requests[r].waits = <<300, 600>>
        /\ requests[r].response.status = 502

\* net.fetch settles and the backoff timer fires: the steps of sessionFetch
\* that the event loop takes without any further input
sessionFetchStep(q) ==
    \/ \E up \in UpstreamResponses : UpstreamAnswered(q, up)
    \/ UpstreamFailed(q)
    \/ RetryDue(q)

\* The retry loop of sessionFetch on its own: the proxy with one registration
\* path and its requests, and the event loop taking every step that is due.
RetryNext ==
    \/ \E port \in Ports : StartProxyServer(port)
    \/ CreateWindow(1)
    \/ \E referer \in Referers : SetExtractorWindow(1, referer)
    \/ \E q \in ReqIds : \E r \in ClientRequests(proxyPort) :
          ProxyRequest(q, r.method, r.reqUrl)
    \/ \E q \in ReqIds : \E up \in UpstreamResponses : UpstreamAnswered(q, up)
    \/ \E q \in ReqIds : UpstreamFailed(q)
    \/ \E q \in ReqIds : RetryDue(q)

RetrySpec ==
    Init /\ [][RetryNext]_vars /\ \A q \in ReqIds : WF_vars(sessionFetchStep(q))

\* C24 amended: the budget is 3 attempts, that is 2 retries, with waits of
\* 300 ms times the attempt number before each retry; 403 answers and
\* transport errors share it; a persistent 403 is handed on with status 403
\* and a persistent transport error is answered 502; and while the
\* application runs every request that reached sessionFetch is answered.
C24_ThreeAttempts ==
    /\ [](\A p \in ReqIds : threeAttempts(requests[p]))
    /\ \A p \in ReqIds :
          (requests[p].pc \in {"fetch", "wait"}) ~>
              (requests[p].pc = "done" \/ appState # "running")

\* the response is the rewritten playlist: the branch of the .then callback
\* taken for a 200 answer that claims to be a playlist and has the marker
isRewrittenPlaylist(q) ==
    /\ claimsPlaylist[q.targetUrl][q.upstream]
    /\ q.upstream.status = 200
    /\ hasMarker[q.upstream]

\* the response is the 502 given to a 200 answer that claims to be a
\* playlist and lacks the marker
isRejectedPlaylist(q) ==
    /\ claimsPlaylist[q.targetUrl][q.upstream]
    /\ q.upstream.status = 200
    /\ ~hasMarker[q.upstream]

\* the response hands the upstream answer on: body, status, content type (no
\* Content-Type header when the upstream sent none) and the body's length
handsOn(q) ==
    /\ q.response.body = q.upstream.body
    /\ q.response.status = q.upstream.status
    /\ IF q.upstream.contentType = ""
       THEN "Content-Type" \notin DOMAIN q.response.headers
       ELSE /\ "Content-Type" \in DOMAIN q.response.headers
            /\ q.response.headers["Content-Type"] = q.upstream.contentType
    /\ "Content-Length" \in DOMAIN q.response.headers
    /\ q.response.headers["Content-Length"] = numToString(Len(q.upstream.body))

\* the CORS and cache headers of a response
carriesCors(q) ==
    /\ {"Access-Control-Allow-Origin", "Access-Control-Allow-Headers", "Cache-Control"}
           \subseteq DOMAIN q.response.headers
    /\ q.response.headers["Access-Control-Allow-Origin"] = "*"
    /\ q.response.headers["Access-Control-Allow-Headers"] = "*"
    /\ q.response.headers["Cache-Control"] = "no-cache"

\* C25 as stated: every response made from a completed upstream fetch that is
\* not a rewritten playlist hands the upstream answer on unchanged, and every
\* playlist and pass-through response carries the CORS and cache headers.
C25_PassThroughUnlessRewritten ==
    \A p \in ReqIds :
        LET q == requests[p]
        IN  answeredFromUpstream(q) =>
                /\ ~isRewrittenPlaylist(q) => handsOn(q)
                /\ (isRewrittenPlaylist(q) \/ handsOn(q)) => carriesCors(q)

\* C25 amended: every response made from a completed upstream fetch that is
\* neither a rewritten playlist nor the 502 given to a claimed playlist
\* without the marker hands the upstream answer on unchanged, and every
\* playlist and pass-through response carries the CORS and cache headers.
C25_PassThroughUnlessPlaylist ==
    \A p \in ReqIds :
        LET q == requests[p]
        IN  answeredFromUpstream(q) =>
                /\ (~isRewrittenPlaylist(q) /\ ~isRejectedPlaylist(q)) => handsOn(q)
                /\ ~isRejectedPlaylist(q) => carriesCors(q)

\* C25 witness: a segment without content type was handed on with status 200,
\* and a 404 answer for a playlist URL was handed on as well.
C25_Witness ==
    \E p, r \in ReqIds :
        /\ answeredFromUpstream(requests[p])
        /\ requests[p].upstream.status = 200
        /\ ~claimsPlaylist[requests[p].targetUrl][requests[p].upstream]
        /\ requests[p].response.body = requests[p].upstream.body
        /\ answeredFromUpstream(requests[r])
        /\ requests[r].upstream.status = 404
        /\ requests[r].response.status = 404
        /\ carriesCors(requests[r])

\* toProxyUrl spelled out: the local route followed by the encoded URL
wrapOf == [port \in Ports \cup {0} |-> [u \in TargetUrls |->
              "http://127.0.0.1:" \o portString[port] \o "/proxy?url="
                  \o encodeURIComponent(u)]]

\* C28: for every real URL u, the target URL that handleRequest takes from a
\* GET request for toProxyUrl(u) is exactly u (the URLs include `?`, `&`, `=`
\* and `+`), and toProxyUrl(u) is the local route followed by the encoded u.
C28_UnwrapInvertsWrap ==
    \A u \in TargetUrls :
        /\ \A p \in ReqIds :
              (/\ requests[p].pc # "idle"
               /\ requests[p].method = "GET"
               /\ requests[p].reqUrl = wrapOf[proxyPort][u]) => requests[p].targetUrl = u
        /\ toProxyUrl(u) = wrapOf[proxyPort][u]

\* C28 witness: the handler took a target URL with a query of its own from a
\* request for its proxy URL and fetched it.
C28_Witness ==
    \E p \in ReqIds :
        /\ requests[p].reqUrl = wrapOf[proxyPort]["https://c.io/a/m.m3u8?t=1&s=a+b"]
        /\ requests[p].targetUrl = "https://c.io/a/m.m3u8?t=1&s=a+b"
        /\ requests[p].statuses # <<>>

\* the ProxyRegistration held by the module: extractorWindow and activeReferer
registration == [win |-> extractorWindow, referer |-> activeReferer]

\* C29: in every reachable state the registered window and the active
\* referer belong to the same registration: together they are either the
\* empty registration or the pair of the latest setExtractorWindow call, so
\* that no operation has changed one of the two without the other.
C29_RegistrationReplacedWhole ==
    registration \in {NoRegistration, regHist.last}

\* s is a proxy URL of this server that wraps an absolute URL
wrapsAbsolute(port, s) ==
    /\ startsWith(s, "http://127.0.0.1:" \o portString[port] \o "/proxy?url=")
    /\ isAbsoluteHttp(proxyTarget(s))
    /\ s = toProxyUrlAt(port, proxyTarget(s))

\* the value of the URI attribute that starts at position j of line
uriValueAt(line, j) ==
    IF includes(SubSeq(line, j + 5, Len(line)), "\"")
    THEN SubSeq(line, j + 5, j + 3 + indexOf(SubSeq(line, j + 5, Len(line)), "\""))
    ELSE SubSeq(line, j + 5, Len(line))

\* every URI="..." attribute of a line is a proxy URL wrapping an absolute URL
uriAttributesWrapped(port, line) ==
    \A j \in 1..Len(line) :
        startsWith(SubSeq(line, j, Len(line)), "URI=\"") => wrapsAbsolute(port, uriValueAt(line, j))

\* an output line has the URL shape asked of it
lineShape(port, trimmed) ==
    IF trimmed = "" THEN TRUE
    ELSE IF startsWith(trimmed, "#") THEN uriAttributesWrapped(port, trimmed)
    ELSE wrapsAbsolute(port, trimmed)

\* an output line wraps what its input line refers to: an absolute input
\* itself, a relative input below the origin of the playlist
lineWraps(trimmedIn, trimmedOut, playlistUrl) ==
    (trimmedIn # "" /\ ~startsWith(trimmedIn, "#")) =>
        IF isAbsoluteHttp(trimmedIn) THEN proxyTarget(trimmedOut) = trimmedIn
        ELSE startsWith(proxyTarget(trimmedOut), originOf(playlistUrl) \o "/")

outputShape(port, ins, outs, playlistUrl) ==
    \A i \in 1..Len(outs) :
        /\ lineShape(port, trim(outs[i]))
        /\ i <= Len(ins) => lineWraps(trim(ins[i]), trim(outs[i]), playlistUrl)

\* C26: for every playlist text and fetch URL, in the output of
\* rewritePlaylist every non-blank non-comment line and every URI="..."
\* attribute of a comment line is a proxy URL wrapping an absolute URL,
\* absolute inputs wrapped unchanged and relative ones joined to the base.
C26_OutputIsProxied ==
    rewriteRun.done =>
        outputShape(proxyPort, splitLines(rewriteRun.content),
                    splitLines(rewriteRun.output), rewriteRun.playlistUrl)

\* outLine is inLine with nothing but the value of the URI attribute at
\* position j changed
onlyUriValueChanged(inLine, outLine, j) ==
    /\ startsWith(outLine, SubSeq(inLine, 1, j + 4))
    /\ SubSeq(inLine, j + 5 + Len(uriValueAt(inLine, j)), Len(inLine))
          = SubSeq(outLine, j + 5 + Len(uriValueAt(outLine, j)), Len(outLine))
    /\ uriValueAt(outLine, j) # uriValueAt(inLine, j)

\* what rewritePlaylist may do to one line: keep a blank line and a comment
\* without URI attribute as they are, change only the URI value of a comment
\* that has one, replace any other line by one proxy URL
lineFrame(port, inLine, trimmed, outLine) ==
    IF trimmed = "" \/ (startsWith(trimmed, "#") /\ uriMatchIndex(inLine) = 0)
    THEN outLine = inLine
    ELSE IF startsWith(trimmed, "#")
    THEN onlyUriValueChanged(inLine, outLine, uriMatchIndex(inLine))
    ELSE wrapsAbsolute(port, outLine)

outputFrame(port, ins, outs) ==
    /\ Len(outs) = Len(ins)
    /\ \A i \in 1..Len(ins) : lineFrame(port, ins[i], trim(ins[i]), outs[i])

\* C27: rewritePlaylist keeps the number and order of lines, leaves blank
\* lines and comment lines without URI attribute byte for byte, changes only
\* the URI value of comment lines that have one, and replaces every
\* non-comment line as a whole.
C27_LinesAndFrameKept ==
    rewriteRun.done =>
        outputFrame(proxyPort, splitLines(rewriteRun.content),
                    splitLines(rewriteRun.output))

\* best is a candidate of maximal score and, among the candidates of that
\* score, one with the shortest normalized title
isTopOf(scored, best) ==
    \E k \in 1..Len(scored) :
        /\ scored[k].result = best
        /\ \A j \in 1..Len(scored) :
              /\ scored[j].score <= scored[k].score
              /\ scored[j].score = scored[k].score => scored[k].length <= scored[j].length

\* no candidate scores above 30
topAtMost30(scored, unit) == \A k \in 1..Len(scored) : scored[k].score <= 30 * unit

\* what findBestMatch owes for the scored candidates of a result list
bestIsTop(results, scored, unit, best) ==
    /\ best = NoResult <=> (Len(results) = 0 \/ topAtMost30(scored, unit))
    /\ best # NoResult => isTopOf(scored, best)

\* C30: findBestMatch returns a candidate of maximal score, among equal top
\* scores one with the shortest normalized title, and returns none exactly
\* when the result list is empty or the top score is at most 30.
C30_BestIsTopCandidate ==
    findRun.done =>
        bestIsTop(findRun.results,
                  scoredOf(candidatesOf(findRun.results, findRun.audioType),
                           findRun.title, findRun.titleEnglish),
                  scoreUnit(normalize(findRun.title), target2Of(findRun.titleEnglish)),
                  findRun.best)

\* C30 witness: two candidates tie at the top score, the longer one first in
\* the list, and the shorter one is returned.
C30_Witness ==
    /\ findRun.done
    /\ findRun.results = <<[id |-> "tokyo-g", title |-> "Tokyo G"],
                           [id |-> "tokyo", title |-> "Tokyo"],
                           [id |-> "tokyo-x", title |-> "Tokyo X"]>>
    /\ findRun.best = [id |-> "tokyo", title |-> "Tokyo"]

\* norm equals the normalized title or the normalized alt title
isExact(norm, target1, target2) == norm = target1 \/ (target2 # "" /\ norm = target2)

\* the score of a candidate that is no exact match, times unit: 80 for title
\* containment, 75 for alt-title containment, else the larger word-overlap
\* ratio times 60, each less min(2 x excess length, 20) when the candidate is
\* longer than the shorter query
nonExactScore(norm, target1, target2, unit) ==
    (IF includes(norm, target1) \/ includes(target1, norm) THEN 80 * unit
     ELSE IF target2 # "" /\ (includes(norm, target2) \/ includes(target2, norm))
          THEN 75 * unit
     ELSE 60 * maxOf((countIn(split(target1), split(norm)) * unit) \div Len(split(target1)),
                     IF target2 # ""
                     THEN (countIn(split(target2), split(norm)) * unit)
                              \div Len(split(target2))
                     ELSE 0))
    - (IF Len(norm) > targetLenOf(target1, target2)
       THEN minOf(2 * (Len(norm) - targetLenOf(target1, target2)), 20) * unit
       ELSE 0)

\* the score of every candidate is the one stated, and when a candidate is an
\* exact match, an exact match is what findBestMatch returns
scoresAsStated(scored, target1, target2, unit, best) ==
    /\ \A k \in 1..Len(scored) :
          IF isExact(normalize(scored[k].result.title), target1, target2)
          THEN scored[k].score = 100 * unit
          ELSE /\ scored[k].score <= 80 * unit
               /\ scored[k].score =
                     nonExactScore(normalize(scored[k].result.title), target1, target2, unit)
    /\ (\E k \in 1..Len(scored) :
           isExact(normalize(scored[k].result.title), target1, target2)) =>
          isExact(normalize(best.title), target1, target2) /\ best # NoResult

\* C31: a candidate whose normalized title equals the normalized title or alt
\* title scores exactly 100, unpenalized; every other candidate scores at most
\* 80 (80, 75 or overlap x 60, less the length penalty); so an exact match
\* among the candidates wins over a longer title that contains the query.
C31_ExactMatchWins ==
    findRun.done =>
        scoresAsStated(scoredOf(candidatesOf(findRun.results, findRun.audioType),
                                findRun.title, findRun.titleEnglish),
                       normalize(findRun.title), target2Of(findRun.titleEnglish),
                       scoreUnit(normalize(findRun.title), target2Of(findRun.titleEnglish)),
                       findRun.best)

\* C31 witness: the sequel, exact for the title and longer than the English
\* title, was returned although a shorter candidate contained in the title
\* came first.
C31_Witness ==
    /\ findRun.done
    /\ findRun.titleEnglish = "Tokyo G"
    /\ findRun.results = <<[id |-> "tokyo", title |-> "Tokyo"],
                           [id |-> "tokyo-ghoul", title |-> "Tokyo Ghoul"],
                           [id |-> "tokyo-ghoul-re", title |-> "Tokyo Ghoul Re"]>>
    /\ findRun.best = [id |-> "tokyo-ghoul-re", title |-> "Tokyo Ghoul Re"]

\* r is an entry of the requested audio type
ofRequestedType(r, audioType) == isDub(r) <=> audioType = "dub"

\* the audio filter as findBestMatch owes it: with an entry of the requested
\* type among the results, what is returned is none or of that type; without
\* one, the top of all results is returned if it is accepted
audioRespected(results, audioType, scoredAll, unit, best) ==
    IF \E i \in 1..Len(results) : ofRequestedType(results[i], audioType)
    THEN best = NoResult \/ ofRequestedType(best, audioType)
    ELSE bestIsTop(results, scoredAll, unit, best)

\* C32: findBestMatch never returns an entry of the other audio type when an
\* entry of the requested type is among the results, even when the other
\* entry would score higher; only when there is none are all results scored.
C32_AudioTypeRespected ==
    findRun.done =>
        audioRespected(findRun.results, findRun.audioType,
                       scoredOf(findRun.results, findRun.title, findRun.titleEnglish),
                       scoreUnit(normalize(findRun.title), target2Of(findRun.titleEnglish)),
                       findRun.best)

\* C32 witness: the dub was asked for and returned although the exact match
\* of the other type came first in the results.
C32_Witness ==
    /\ findRun.done
    /\ findRun.audioType = "dub"
    /\ findRun.titleEnglish = ""
    /\ findRun.results = <<[id |-> "tokyo-ghoul", title |-> "Tokyo Ghoul"],
                           [id |-> "tokyo-ghoul-dub", title |-> "Tokyo Ghoul (Dub)"]>>
    /\ findRun.best = [id |-> "tokyo-ghoul-dub", title |-> "Tokyo Ghoul (Dub)"]

\* a session is settled once: the flag, the promise and the window agree, the
\* window was destroyed once, and a resolved promise carries a source
settledOnce(id) ==
    /\ sessions[id].destroyCalls <= 1
    /\ sessions[id].resolved <=> sessions[id].outcome # "pending"
    /\ sessions[id].destroyCalls = 1 <=> sessions[id].outcome # "pending"
    /\ id \in windows <=> sessions[id].outcome = "pending"
    /\ sessions[id].outcome \in {"pending", "resolved", "rejected"}
    /\ sessions[id].outcome = "resolved" =>
          /\ hist[id].settledSources # <<>>
          /\ sessions[id].info.sources = id
          /\ sessions[id].error = ""
    /\ sessions[id].outcome = "rejected" =>
          /\ sessions[id].info = NoInfo
          /\ sessions[id].error # ""

\* what was delivered for a settled session stays as it is
staysSettled(id) ==
    (sessions[id].outcome # "pending" /\ id \in DOMAIN sessions') =>
        /\ sessions'[id].outcome = sessions[id].outcome
        /\ sessions'[id].info = sessions[id].info
        /\ sessions'[id].error = sessions[id].error
        /\ sessions'[id].destroyCalls = sessions[id].destroyCalls

\* C33: across every interleaving of captures, debounce timers and the
\* ceiling timer a session is settled at most once and stays settled: one of
\* resolve and reject is delivered, the window is destroyed once at that
\* moment, and a resolved session carries at least one source.
C33_SettlesOnce ==
    /\ [](\A id \in SessionIds : settledOnce(id))
    /\ [][\A id \in SessionIds : staysSettled(id)]_vars

\* C33 witness: a session was resolved by its first debounce timer with two
\* sources, and the second debounce timer has fired since; another session
\* was settled by the ceiling.
C33_Witness ==
    \E id, other \in SessionIds :
        /\ hist[id].settledBy = "debounce"
        /\ Len(hist[id].settledSources) >= 2
        /\ sessions[id].debounce = <<>>
        /\ sessions[id].destroyCalls = 1
        /\ hist[other].settledBy = "ceiling"

\* a request in flight keeps the window it read when it arrived
keepsSession(p) ==
    requests[p].pc \in {"fetch", "wait"} =>
        /\ requests'[p].win = requests[p].win
        /\ requests'[p].targetUrl = requests[p].targetUrl

\* a step that changes request p changes no other request, and a step that
\* changes the registration changes no request
requestsApart(p) ==
    /\ requests'[p] # requests[p] =>
          \A r \in ReqIds \ {p} : requests'[r] = requests[r]
    /\ (extractorWindow' # extractorWindow \/ activeReferer' # activeReferer) =>
          requests'[p] = requests[p]

\* the window of a request that reached sessionFetch is the live window that
\* was registered when it arrived, and its response is made of its own
\* upstream answer
ownSession(q) ==
    /\ q.attempt >= 1 => (q.win = q.registered /\ q.win # 0 /\ q.alive)
    /\ answeredFromUpstream(q) =>
          q.response = responseTable[proxyPort][q.targetUrl][q.upstream]

\* C34: a proxy request reads the registration once, on arrival; all its
\* attempts use the session read then; replacing or clearing the
\* registration while requests are in flight changes no request, and no
\* request changes another one or its response.
C34_SessionReadOnce ==
    /\ [](\A p \in ReqIds : ownSession(requests[p]))
    /\ [][\A p \in ReqIds : keepsSession(p) /\ requestsApart(p)]_vars

\* C34 witness: a request waits for its retry on the session of a window that
\* is no longer the registered one, while another request was answered from
\* the session of the window registered now.
C34_Witness ==
    \E p, r \in ReqIds :
        /\ requests[p].pc = "wait"
        /\ requests[p].win # extractorWindow
        /\ answeredFromUpstream(requests[r])
        /\ requests[r].win = extractorWindow
        /\ requests[r].win # requests[p].win

\* the classification as stated: an HLS manifest
statedManifest(url, path) ==
    /\ \/ endsWith(path, ".m3u8")
       \/ includes(path, "/master.m3u8")
       \/ (includes(path, "/index") /\ includes(path, ".m3u8"))
    /\ ~includes(url, ".ts")
    /\ ~includes(url, "jwpltx")
    /\ ~includes(url, "ping.gif")

\* the classification as stated: direct media
statedMedia(url, path) ==
    /\ endsWith(path, ".mp4") \/ endsWith(path, ".webm")
    /\ ~includes(url, "ad")

\* the sources a request contributes under the stated classification
statedSources(url, path) ==
    (IF statedManifest(url, path) THEN <<m3u8Source(url)>> ELSE <<>>)
        \o (IF statedMedia(url, path) THEN <<videoSource(url)>> ELSE <<>>)

statedTable == [u \in HookUrls |-> statedSources(u, splitQuery(u))]

\* the listener's effect on its session for one request, against stated
classifiedAs(url, stated) ==
    Request(url) =>
        /\ sessions'[hookOwner].capturedUrls = sessions[hookOwner].capturedUrls \o stated
        /\ stated = <<>> => UNCHANGED <<sessions, hist, captureCount>>

\* C35: the request hook captures a URL as an HLS manifest exactly when its
\* path without the query ends in .m3u8, contains /master.m3u8 or contains
\* /index together with .m3u8, and the URL holds no .ts, jwpltx or ping.gif;
\* as direct media exactly when its path ends in .mp4 or .webm and the URL
\* is not flagged as an ad; any other request changes nothing.
C35_ClassifiedAsStated ==
    [][\A url \in HookUrls : classifiedAs(url, statedTable[url])]_vars

\* a request the onBeforeSendHeaders listener cancels has left the session of
\* the onBeforeRequest listener as it was
blockedIsIgnored(url) ==
    (Request(url) /\ blockHit[url]) => UNCHANGED <<sessions, hist, captureCount>>

\* C36: a request that the blocklist hook cancels contributes no source to
\* the capture buffer and neither starts nor prolongs the debounce: the
\* capture hook and the blocking hook agree on every request.
C36_BlockedNeverCaptured ==
    [][\A url \in HookUrls : blockedIsIgnored(url)]_vars

\* the latest probe of call c, logged in this step, carried a fingerprint and
\* ended at origin
validatedNow(c, origin) ==
    LET log == fetches'[c].resolution.log
    IN  /\ log # <<>>
        /\ fetches'[c].resolution # fetches[c].resolution
        /\ log[Len(log)].ok
        /\ finalOrigin[log[Len(log)].finalUrl] = origin

\* C37: whenever the memo of the active mirror is set, it is set to the
\* origin of a probe response that carried a provider fingerprint; it is
\* never set to an origin that was not validated.
C37_MemoIsValidated ==
    [][(activeBaseUrl' # activeBaseUrl /\ activeBaseUrl' # "") =>
           \E c \in CallIds : validatedNow(c, activeBaseUrl')]_vars

\* ------------------------------------------------------------------
\* The watch page (renderer): loadData, fetchFromProvider and
\* handleAudioTypeChange
\* ------------------------------------------------------------------

Episodes == 1..MaxEpisode

AudioTypes == {"sub", "dub"}

\* the (episode number, audio type) pairs a fetch can be asked for
Selections == [episode : Episodes, audio : AudioTypes]

\* what window.api.fetchEpisodeSources resolves with: an embed URL, a list
\* of sources, or neither
FetchResults == {"embed", "sources", "none"}

\* fetchFromProvider(details, audio) of the render whose episode number is
\* episode: returns at once without details or while fetchingRef is set,
\* otherwise sets the ref, clears the source and the error and issues the call
fetchFromProvider(w, details, episode, audio) ==
    IF ~details
    THEN w
    ELSE IF w.fetchingRef
    THEN [w EXCEPT !.dropped = @ \cup {[episode |-> episode, audio |-> audio]}]
    ELSE [w EXCEPT !.fetchingRef = TRUE,
                   !.providerError = FALSE,
                   !.shown = NoSource,
                   !.inflight = @ \cup {[episode |-> episode, audio |-> audio]}]

\* the route /watch/:id/:episode is opened or changed: the effect on
\* [anilistId, episodeNumber] calls loadData, which awaits its four reads
OpenEpisode(ep, stored) ==
    /\ appState = "running"
    /\ ep # watch.episodeNumber
    /\ LET audio == IF watch.mounted THEN watch.audioType ELSE stored
       IN  watch' = [watch EXCEPT
                        !.mounted = TRUE,
                        !.episodeNumber = ep,
                        !.audioType = audio,
                        !.loads = @ \cup {[episode |-> ep, audio |-> audio]}]
    /\ UNCHANGED <<appState, server, proxyPort, extractorWindow, activeReferer, windows,
                   hookOwner, sessions, calls, captureCount, hist, matchVars, proxyVars,
                   rewriteRun, findRun, library>>

\* loadData after its await: the details are set, then a saved manual source
\* is displayed, or the source is cleared and fetchFromProvider is called with
\* the episode number and the audio type of the render that started loadData
LoadDataResolved(l, saved) ==
    /\ l \in watch.loads
    /\ LET w == [watch EXCEPT !.loads = @ \ {l}, !.anime = TRUE]
       IN  watch' = IF saved
                    THEN [w EXCEPT !.shown = [episode |-> l.episode, audio |-> "manual"]]
                    ELSE fetchFromProvider([w EXCEPT !.shown = NoSource], TRUE,
                                           l.episode, l.audio)
    /\ UNCHANGED <<appState, server, proxyPort, extractorWindow, activeReferer, windows,
                   hookOwner, sessions, calls, captureCount, hist, matchVars, proxyVars,
                   rewriteRun, findRun, library>>

\* loadData when one of its reads rejects: the catch only logs
LoadDataFailed(l) ==
    /\ l \in watch.loads
    /\ watch' = [watch EXCEPT !.loads = @ \ {l}]
    /\ UNCHANGED <<appState, server, proxyPort, extractorWindow, activeReferer, windows,
                   hookOwner, sessions, calls, captureCount, hist, matchVars, proxyVars,
                   rewriteRun, findRun, library>>

\* handleAudioTypeChange(newType)
HandleAudioTypeChange(newType) ==
    /\ watch.mounted
    /\ newType # watch.audioType
    /\ watch' = fetchFromProvider([watch EXCEPT !.audioType = newType], watch.anime,
                                  watch.episodeNumber, newType)
    /\ UNCHANGED <<appState, server, proxyPort, extractorWindow, activeReferer, windows,
                   hookOwner, sessions, calls, captureCount, hist, matchVars, proxyVars,
                   rewriteRun, findRun, library>>

\* fetchFromProvider after its await resolved: the embed URL or the best
\* source is displayed, or the error is set; finally the ref is reset
FetchResolved(f, result) ==
    /\ f \in watch.inflight
    /\ watch' = [watch EXCEPT
                     !.inflight = @ \ {f},
                     !.shown = IF result = "none" THEN @ ELSE f,
                     !.providerError = IF result = "none" THEN TRUE ELSE @,
                     !.fetchingRef = FALSE]
    /\ UNCHANGED <<appState, server, proxyPort, extractorWindow, activeReferer, windows,
                   hookOwner, sessions, calls, captureCount, hist, matchVars, proxyVars,
                   rewriteRun, findRun, library>>

\* fetchFromProvider after its await rejected: the error is set; finally the
\* ref is reset
FetchRejected(f) ==
    /\ f \in watch.inflight
    /\ watch' = [watch EXCEPT
                     !.inflight = @ \ {f},
                     !.providerError = TRUE,
                     !.fetchingRef = FALSE]
    /\ UNCHANGED <<appState, server, proxyPort, extractorWindow, activeReferer, windows,
                   hookOwner, sessions, calls, captureCount, hist, matchVars, proxyVars,
                   rewriteRun, findRun, library>>

WatchNext ==
    \/ \E port \in Ports : StartProxyServer(port)
    \/ \E ep \in Episodes : \E stored \in AudioTypes : OpenEpisode(ep, stored)
    \/ \E l \in Selections : \E saved \in BOOLEAN : LoadDataResolved(l, saved)
    \/ \E l \in Selections : LoadDataFailed(l)
    \/ \E newType \in AudioTypes : HandleAudioTypeChange(newType)
    \/ \E f \in Selections : \E result \in FetchResults : FetchResolved(f, result)
    \/ \E f \in Selections : FetchRejected(f)

WatchSpec == Init /\ [][WatchNext]_vars

\* the displayed source, if any, was fetched for the current episode and
\* audio type, or is the manual source saved for the current episode
belongsToSelection(w) ==
    w.shown # NoSource =>
        /\ w.shown.episode = w.episodeNumber
        /\ w.shown.audio \in {w.audioType, "manual"}

\* no loadData and no fetch is pending
settled(w) == w.loads = {} /\ w.inflight = {}

\* C38: in the watch page at most one provider fetch is in flight, every
\* fetch asked for while another one is in flight is still issued, and once
\* nothing is pending the displayed source belongs to the current episode
\* number and audio type
C38_LatestSelectionShown ==
    /\ Cardinality(watch.inflight) <= 1
    /\ watch.dropped = {}
    /\ settled(watch) => belongsToSelection(watch)

\* ------------------------------------------------------------------
\* The library (main process, database.ts): the tables anime and
\* watch_progress
\* ------------------------------------------------------------------

Statuses == {"PLAN_TO_WATCH", "WATCHING"}

\* values of watched_seconds
WatchedSeconds == {10, 20}

\* SELECT id FROM anime WHERE anilist_id = ?: the ids of the matching rows
animeIdsOf(lib, anilistId) == { a.id : a \in { r \in lib.anime : r.anilistId = anilistId } }

\* getProgress(anilistId): the watch_progress rows joined to the anime row
\* of anilistId on wp.anime_id = a.id
getProgress(lib, anilistId) ==
    { wp \in lib.progress : wp.animeId \in animeIdsOf(lib, anilistId) }

\* getEpisodeProgress(anilistId, episodeNumber): the same join, restricted
\* to one episode; the empty set is null
getEpisodeProgress(lib, anilistId, episodeNumber) ==
    { wp \in getProgress(lib, anilistId) : wp.episode = episodeNumber }

\* addAnime(anime): INSERT OR REPLACE INTO anime. A row with the same
\* anilist_id (UNIQUE) is deleted and the new row takes the next
\* AUTOINCREMENT id; no PRAGMA foreign_keys is issued, so watch_progress is
\* left as it is
addAnime(lib, anilistId, status) ==
    [lib EXCEPT
        !.anime = { r \in @ : r.anilistId # anilistId }
                    \cup {[id |-> lib.seq + 1, anilistId |-> anilistId, status |-> status]},
        !.seq = @ + 1]

\* updateStatus(anilistId, status): UPDATE anime SET status = ?
updateStatus(lib, anilistId, status) ==
    [lib EXCEPT
        !.anime = { IF r.anilistId = anilistId THEN [r EXCEPT !.status = status] ELSE r :
                       r \in @ }]

\* removeAnime(anilistId): deletes the progress rows of the anime's id, then
\* the anime row
removeAnime(lib, anilistId) ==
    [lib EXCEPT
        !.progress = { wp \in @ : wp.animeId \notin animeIdsOf(lib, anilistId) },
        !.anime = { r \in @ : r.anilistId # anilistId }]

\* saveProgress(progress): updates the row found through the join, or
\* inserts one whose anime_id is the id selected by anilist_id; without an
\* anime row that id is NULL, the NOT NULL constraint makes db.run throw and
\* nothing is written
saveProgress(lib, anilistId, episodeNumber, watchedSeconds) ==
    LET existing == getEpisodeProgress(lib, anilistId, episodeNumber)
    IN  IF existing # {}
        THEN [lib EXCEPT
                 !.progress = (@ \ existing)
                     \cup { [wp EXCEPT !.watched = watchedSeconds] : wp \in existing }]
        ELSE IF animeIdsOf(lib, anilistId) = {}
        THEN lib
        ELSE [lib EXCEPT
                 !.progress = @ \cup { [animeId |-> i, episode |-> episodeNumber,
                                        watched |-> watchedSeconds] :
                                          i \in animeIdsOf(lib, anilistId) }]

\* ipc 'db:add-anime' -> addAnime
AddAnime(anilistId, status) ==
    /\ appState = "running"
    /\ library.seq < MaxRowId
    /\ library' = addAnime(library, anilistId, status)
    /\ UNCHANGED <<appState, server, proxyPort, extractorWindow, activeReferer, windows,
                   hookOwner, sessions, calls, captureCount, hist, matchVars, proxyVars,
                   rewriteRun, findRun, watch>>

\* ipc 'db:update-status' -> updateStatus
UpdateStatus(anilistId, status) ==
    /\ appState = "running"
    /\ library' = updateStatus(library, anilistId, status)
    /\ UNCHANGED <<appState, server, proxyPort, extractorWindow, activeReferer, windows,
                   hookOwner, sessions, calls, captureCount, hist, matchVars, proxyVars,
                   rewriteRun, findRun, watch>>

\* ipc 'db:remove-anime' -> removeAnime
RemoveAnime(anilistId) ==
    /\ appState = "running"
    /\ library' = removeAnime(library, anilistId)
    /\ UNCHANGED <<appState, server, proxyPort, extractorWindow, activeReferer, windows,
                   hookOwner, sessions, calls, captureCount, hist, matchVars, proxyVars,
                   rewriteRun, findRun, watch>>

\* ipc 'db:save-progress' -> saveProgress
SaveProgress(anilistId, episodeNumber, watchedSeconds) ==
    /\ appState = "running"
    /\ library' = saveProgress(library, anilistId, episodeNumber, watchedSeconds)
    /\ UNCHANGED <<appState, server, proxyPort, extractorWindow, activeReferer, windows,
                   hookOwner, sessions, calls, captureCount, hist, matchVars, proxyVars,
                   rewriteRun, findRun, watch>>

LibraryNext ==
    \/ \E port \in Ports : StartProxyServer(port)
    \/ \E a \in AnilistIds : \E st \in Statuses : AddAnime(a, st)
    \/ \E a \in AnilistIds : \E st \in Statuses : UpdateStatus(a, st)
    \/ \E a \in AnilistIds : RemoveAnime(a)
    \/ \E a \in AnilistIds : \E n \in Episodes : \E sec \in WatchedSeconds :
           SaveProgress(a, n, sec)

LibrarySpec == Init /\ [][LibraryNext]_vars

\* the reads of the progress of anilistId return the same rows in lib2 as
\* in lib1
sameProgress(lib1, lib2, anilistId) ==
    /\ getProgress(lib2, anilistId) = getProgress(lib1, anilistId)
    /\ \A n \in Episodes :
           getEpisodeProgress(lib2, anilistId, n) = getEpisodeProgress(lib1, anilistId, n)

\* C39: adding an anime whose anilist id is already in the library keeps its
\* saved watch progress: getProgress and getEpisodeProgress return the same
\* rows after addAnime as before it
C39_UpsertKeepsProgress ==
    [][\A a \in AnilistIds : \A st \in Statuses :
           (AddAnime(a, st) /\ animeIdsOf(library, a) # {}) =>
               sameProgress(library, library', a)]_vars

\* ------------------------------------------------------------------
\* The mapping across a failed episode fetch
\* ------------------------------------------------------------------

\* call c matched a slug itself, wrote the mapping, and its
\* getEpisodeSources then rejected
episodeFailed(c) ==
    /\ fetches[c].wrote
    /\ fetches[c].pc = "sources"
    /\ calls[c].pc = "thrown"

\* a call that holds a slug it matched itself has written the mapping
persistedOnMatch(c) ==
    (fetches[c].slug # "" /\ fetches[c].cachedAtStart = "") => fetches[c].wrote

\* the step in which call c matches a slug stores it as the mapping, and no
\* answer to the request for the episode page has arrived yet
persistedBeforeEpisode(c) ==
    (/\ fetches'[c].slug # fetches[c].slug
     /\ fetches'[c].slug # ""
     /\ fetches'[c].cachedAtStart = "") =>
        /\ providerCache'[fetches'[c].opts.anilistId] = fetches'[c].slug
        /\ calls'[c].pc \in {"idle", "episode"}

\* a call that started on the mapping left by the failed call c searches
\* nothing and works on the slug of c
reusesSlugOf(c, c2) ==
    (/\ episodeFailed(c)
     /\ fetches[c2].opts.anilistId = fetches[c].opts.anilistId
     /\ fetches[c2].cachedAtStart = fetches[c].slug) =>
        /\ fetches[c2].searched = <<>>
        /\ fetches[c2].slug = fetches[c].slug
        /\ ~fetches[c2].wrote

\* the mapping left by the failed call c changes only by being cleared
staysUntilCleared(c) ==
    LET a == fetches[c].opts.anilistId
    IN  (/\ episodeFailed(c)
         /\ providerCache[a] = fetches[c].slug
         /\ providerCache'[a] # providerCache[a]) =>
            /\ providerCache'[a] = ""
            /\ matchHist'.clears = matchHist.clears + 1

\* C40: a matched slug is persisted in the step that matches, before the
\* episode page is asked for; when getEpisodeSources then fails the mapping
\* stays stored until clearProviderMapping, and every call that starts on it
\* reuses the slug without searching
C40_MappingSurvivesFailure ==
    /\ [](\A c \in CallIds : persistedOnMatch(c))
    /\ [](\A c \in CallIds : \A c2 \in CallIds : reusesSlugOf(c, c2))
    /\ [][\A c \in CallIds : persistedBeforeEpisode(c) /\ staysUntilCleared(c)]_vars

====
